---- MODULE Spec2Model ----
(***************************************************************************)
(* Provider registries, search fallback and market-data aggregation of the *)
(* stock-analysis application.                                             *)
(*                                                                         *)
(*   src/src/config/llm_config.py      LLMConfigManager                    *)
(*   src/src/config/search_config.py   SearchConfigManager                 *)
(*   src/src/tools/search_tools.py     SearchTools                         *)
(*   src/src/config/mcp_client.py      AlphaVantageMCPClient               *)
(*   src/src/config/alpha_vantage_config.py  AlphaVantageManager           *)
(*   src/src/tools/yfinance_tools.py   YfinanceTools                       *)
(*   src/src/config/__init__.py        ConfigManager                       *)
(*   src/main.py                       StockAnalysisApp, main              *)
(*   src/.history/src/tasks/market_tasks_20250918121707.py  MarketTasks    *)
(*                                                                         *)
(* Each component has its own specification (SpecLLM, SpecModel,           *)
(* SpecSearch, SpecRegistry, SpecQueries, SpecConfig, SpecTools, SpecAgg,  *)
(* SpecAV, SpecCompare, SpecRequest, SpecRun, SpecBatch, SpecCLI); the     *)
(* variables of the other components stay at the value they have in an     *)
(* empty environment.                                                      *)
(***************************************************************************)
EXTENDS Integers, Sequences, FiniteSets, TLC

VARIABLES
    llm_env,      \* environment read by LLMConfigManager.__init__
    llm_manager,  \* [configs, default_provider] of the LLMConfigManager
    llm_ret,      \* argument and outcome of the last LLMConfigManager query
    s_env,        \* environment read by SearchConfigManager.__init__
    search_manager, \* [configs, default_provider] of the SearchConfigManager
    s_ret,        \* argument and outcome of the last SearchConfigManager query
    t_env,        \* environment read by SearchTools at each call
    t_ret,        \* outcome of the last SearchTools call
    a_env,        \* environment read by the market-data singletons
    a_cfg,        \* [mcp, av]: MCPConfig and AlphaVantageConfig
    a_ret,        \* inputs and outcome of the last aggregator call
    crew,         \* the analyze_stock call in progress and its Crew run
    batch,        \* arguments and outcome of the last batch_analyze call
    cli,          \* the command-line process: arguments, position, exit
    cmp_ret,      \* inputs and outcome of the last compare_data_sources call
    req           \* the _make_mcp_request call in progress

vars == <<llm_env, llm_manager, llm_ret, s_env, search_manager, s_ret,
          t_env, t_ret, a_env, a_cfg, a_ret, crew, batch, cli, cmp_ret, req>>

llm_vars == <<llm_env, llm_manager, llm_ret>>
s_vars == <<s_env, search_manager, s_ret>>
t_vars == <<t_env, t_ret>>
a_vars == <<a_env, a_cfg, a_ret, cmp_ret, req>>
app_vars == <<crew, batch, cli>>

-----------------------------------------------------------------------------
(* Python values *)

\* Python's None: an unset environment variable, a missing argument.
None == "None"

\* Truthiness of an Optional[str]: None and "" are falsy.
Truthy(v) == v # None /\ v # ""

\* os.getenv(name, default)
getenv(env, name, default) ==
    IF name \in DOMAIN env /\ env[name] # None THEN env[name] ELSE default

\* str.lower() on the strings the environments below may hold.
lower(s) ==
    CASE s = "OpenAI" -> "openai"
      [] s = "OLLAMA" -> "ollama"
      [] s = "Tavily" -> "tavily"
      [] s = "TRUE" -> "true"
      [] OTHER -> s

\* str.upper() on the same strings.
upper(s) ==
    CASE s = "openai" -> "OPENAI"
      [] s = "OpenAI" -> "OPENAI"
      [] s = "anthropic" -> "ANTHROPIC"
      [] s = "deepseek" -> "DEEPSEEK"
      [] s = "grok" -> "GROK"
      [] s = "ollama" -> "OLLAMA"
      [] OTHER -> s

\* The values an API-key variable is given: unset, set to "", set to a key.
KeyValues == {None, "", "key"}

\* Elements of a sequence.
Range(seq) == {seq[i] : i \in 1..Len(seq)}

\* The exception objects a call may raise.
Raise(error, msg) == [kind |-> "raise", error |-> error, msg |-> msg]

-----------------------------------------------------------------------------
(* LLMConfigManager: src/src/config/llm_config.py *)

\* class LLMProvider(Enum), members in declaration order (by value).
LLMProvider == <<"openai", "anthropic", "deepseek", "grok", "ollama">>

\* LLMProvider(value): the member with that value, or ValueError.
LLMProvider_call(value) ==
    IF value \in Range(LLMProvider) THEN value ELSE "ValueError"

\* f'{provider.value.upper()}_API_KEY'
LLM_API_KEY(provider) ==
    CASE provider = "openai" -> "OPENAI_API_KEY"
      [] provider = "anthropic" -> "ANTHROPIC_API_KEY"
      [] provider = "deepseek" -> "DEEPSEEK_API_KEY"
      [] provider = "grok" -> "GROK_API_KEY"
      [] provider = "ollama" -> "OLLAMA_API_KEY"

LLMKeyVars == {"OPENAI_API_KEY", "ANTHROPIC_API_KEY", "DEEPSEEK_API_KEY",
               "GROK_API_KEY"}

DefaultLLMValues == {None, "", "openai", "OpenAI", "anthropic", "deepseek",
                     "grok", "OLLAMA", "bogus"}

LLMEnvs == {k @@ ("DEFAULT_LLM" :> d) :
              k \in [LLMKeyVars -> KeyValues], d \in DefaultLLMValues}

LLM_get_default_provider(env) ==
    LET default_llm == lower(getenv(env, "DEFAULT_LLM", "openai"))
    IN  IF LLMProvider_call(default_llm) = "ValueError"
        THEN "openai"
        ELSE LLMProvider_call(default_llm)

\* Optional[LLMConfig] / Optional[SearchConfig]: the None case.
NoConfig == [provider |-> None, api_key |-> None]

\* A model name is kept as the sequence of its characters, so that
\* str.startswith and concatenation are computed on the text itself.
\* model.startswith(prefix)
startswith(s, prefix) ==
    /\ Len(s) >= Len(prefix)
    /\ SubSeq(s, 1, Len(prefix)) = prefix

\* "deepseek/"
deepseek_prefix == <<"d", "e", "e", "p", "s", "e", "e", "k", "/">>

\* "grok", the text _validate_model_format looks for
grok_start == <<"g", "r", "o", "k">>

\* "grok-", the text _validate_model_format prepends
grok_prefix == <<"g", "r", "o", "k", "-">>

\* LLMConfigManager.DEFAULT_MODELS
DEFAULT_MODELS ==
    [p \in Range(LLMProvider) |->
        CASE p = "openai" -> <<"g", "p", "t", "-", "4", "o">>
          [] p = "anthropic" ->
               <<"c", "l", "a", "u", "d", "e", "-", "3", "-", "5", "-", "s",
                 "o", "n", "n", "e", "t", "-", "2", "0", "2", "4", "1", "0",
                 "2", "2">>
          [] p = "deepseek" ->
               <<"d", "e", "e", "p", "s", "e", "e", "k", "-", "r", "e", "a",
                 "s", "o", "n", "e", "r">>
          [] p = "grok" -> <<"g", "r", "o", "k", "-", "2", "-", "1", "2", "1", "2">>
          [] p = "ollama" ->
               <<"l", "l", "a", "m", "a", "3", ".", "2", ":", "l", "a", "t",
                 "e", "s", "t">>]

\* f'{provider_name}_MODEL'
LLM_MODEL(provider) ==
    CASE provider = "openai" -> "OPENAI_MODEL"
      [] provider = "anthropic" -> "ANTHROPIC_MODEL"
      [] provider = "deepseek" -> "DEEPSEEK_MODEL"
      [] provider = "grok" -> "GROK_MODEL"
      [] provider = "ollama" -> "OLLAMA_MODEL"

\* os.getenv(name, default) of a variable whose value is kept as
\* characters; such a variable is unset when the environment has no entry
\* for it.
getenv_chars(env, name, default) ==
    IF name \in DOMAIN env THEN env[name] ELSE default

\* The model _load_provider_config stores: the variable or the default,
\* with "deepseek/" put before a non-empty DeepSeek model that lacks it.
LLM_load_model(env, provider) ==
    LET model == getenv_chars(env, LLM_MODEL(provider),
                              DEFAULT_MODELS[provider])
    IN  IF provider = "deepseek" /\ model # <<>>
           /\ ~startswith(model, deepseek_prefix)
        THEN deepseek_prefix \o model
        ELSE model

\* Variant: the key is only tested for None, so an empty key passes.
LLM_load_provider_config_EmptyKey(env, provider) ==
    IF provider # "ollama"
    THEN IF getenv(env, LLM_API_KEY(provider), None) = None
         THEN NoConfig
         ELSE [provider |-> provider,
               model |-> LLM_load_model(env, provider),
               api_key |-> getenv(env, LLM_API_KEY(provider), None)]
    ELSE [provider |-> provider,
          model |-> LLM_load_model(env, provider),
          api_key |-> None]

\* Variant: Ollama needs a key as the other providers do.
LLM_load_provider_config_OllamaKey(env, provider) ==
    IF ~Truthy(getenv(env, LLM_API_KEY(provider), None))
    THEN NoConfig
    ELSE [provider |-> provider,
          model |-> LLM_load_model(env, provider),
          api_key |-> getenv(env, LLM_API_KEY(provider), None)]

\* NoConfig, or the LLMConfig of the provider.
LLM_load_provider_config(env, provider) ==
    IF provider # "ollama"
    THEN IF ~Truthy(getenv(env, LLM_API_KEY(provider), None))
         THEN NoConfig
         ELSE [provider |-> provider,
               model |-> LLM_load_model(env, provider),
               api_key |-> getenv(env, LLM_API_KEY(provider), None)]
    ELSE [provider |-> provider,
          model |-> LLM_load_model(env, provider),
          api_key |-> None]

\* self.configs after the loop: a dict, kept as the sequence of its values
\* in insertion order.
RECURSIVE LLM_load_from(_, _)
LLM_load_from(env, i) ==
    IF i > Len(LLMProvider) THEN <<>>
    ELSE LET config == LLM_load_provider_config(env, LLMProvider[i])
         IN  (IF config = NoConfig THEN <<>> ELSE <<config>>)
             \o LLM_load_from(env, i + 1)

LLM_load_configurations(env) == LLM_load_from(env, 1)

LLMConfigManager_init(env) ==
    [configs |-> LLM_load_configurations(env),
     default_provider |-> LLM_get_default_provider(env)]

\* list(self.configs.keys())
keys(configs) == [i \in 1..Len(configs) |-> configs[i].provider]

\* self.configs[provider]
item(configs, provider) ==
    configs[CHOOSE i \in 1..Len(configs) : configs[i].provider = provider]

\* Variant: the keys are listed newest first.
LLM_get_available_providers_Reversed(mgr) ==
    [i \in 1..Len(mgr.configs) |->
        mgr.configs[Len(mgr.configs) + 1 - i].provider]

LLM_get_available_providers(mgr) == keys(mgr.configs)

LLM_is_provider_available(mgr, provider) ==
    provider \in Range(keys(mgr.configs))

\* LLMProvider.from_string(value): the member, or ValueError.
from_string(value) ==
    IF \E i \in 1..Len(LLMProvider) : LLMProvider[i] = lower(value)
    THEN lower(value)
    ELSE IF \E i \in 1..Len(LLMProvider) : upper(LLMProvider[i]) = upper(value)
         THEN CHOOSE p \in Range(LLMProvider) : upper(p) = upper(value)
         ELSE "ValueError"

\* Arguments of get_config: None, an enum member, or a str.
NoArg == [type |-> "none", v |-> None]
EnumArg(p) == [type |-> "enum", v |-> p]
StrArg(s) == [type |-> "str", v |-> s]

LLMArgs == {NoArg} \cup {EnumArg(LLMProvider[i]) : i \in 1..Len(LLMProvider)}
             \cup {StrArg(s) : s \in {"openai", "OLLAMA", "grok", "bogus"}}

\* The provider looked up by get_config.
LLM_resolve(mgr, arg) ==
    IF arg.type = "none" THEN mgr.default_provider
    ELSE IF arg.type = "str"
         THEN IF from_string(arg.v) = "ValueError"
              THEN mgr.default_provider
              ELSE from_string(arg.v)
         ELSE arg.v

\* [kind |-> "config", config |-> c], or the ValueError raised.
LLM_get_config(mgr, arg) ==
    LET provider == LLM_resolve(mgr, arg)
    IN  IF ~(provider \in Range(keys(mgr.configs)))
        THEN Raise("ValueError", provider)
        ELSE [kind |-> "config", config |-> item(mgr.configs, provider)]

LLMIdleRet == [op |-> "none", arg |-> NoArg, out |-> [kind |-> "none"]]

LLMInit ==
    /\ llm_env \in LLMEnvs
    /\ llm_manager = LLMConfigManager_init(llm_env)
    /\ llm_ret = LLMIdleRet

LLMIdle ==
    /\ llm_env = [k \in LLMKeyVars \cup {"DEFAULT_LLM"} |-> None]
    /\ llm_manager = LLMConfigManager_init(llm_env)
    /\ llm_ret = LLMIdleRet

LLMGetConfig ==
    /\ llm_ret.op = "none"
    /\ \E arg \in LLMArgs :
        /\ llm_ret' = [op |-> "get_config", arg |-> arg,
                       out |-> LLM_get_config(llm_manager, arg)]
        /\ UNCHANGED <<llm_env, llm_manager, s_vars, t_vars, a_vars, app_vars>>

LLMGetAvailableProviders ==
    /\ llm_ret.op = "none"
    /\ llm_ret' = [op |-> "get_available_providers", arg |-> NoArg,
                   out |-> [kind |-> "list",
                            list |-> LLM_get_available_providers(llm_manager)]]
    /\ UNCHANGED <<llm_env, llm_manager, s_vars, t_vars, a_vars, app_vars>>

\* The caller takes the result; the manager is ready for the next query.
LLMReturn ==
    /\ llm_ret.op # "none"
    /\ llm_ret' = LLMIdleRet
    /\ UNCHANGED <<llm_env, llm_manager, s_vars, t_vars, a_vars, app_vars>>

LLMNext ==
    \/ LLMGetConfig
    \/ LLMGetAvailableProviders
    \/ LLMReturn

\* Variant: the DeepSeek prefix is prepended whatever the model starts with.
validate_model_format_AlwaysPrefix(config) ==
    IF config.provider = "deepseek"
    THEN deepseek_prefix \o config.model
    ELSE IF config.provider = "grok"
         THEN IF ~startswith(config.model, grok_start)
              THEN grok_prefix \o config.model
              ELSE config.model
         ELSE config.model

\* _validate_model_format(config): the model the client is given.
validate_model_format(config) ==
    IF config.provider = "deepseek"
    THEN IF ~startswith(config.model, deepseek_prefix)
         THEN deepseek_prefix \o config.model
         ELSE config.model
    ELSE IF config.provider = "grok"
         THEN IF ~startswith(config.model, grok_start)
              THEN grok_prefix \o config.model
              ELSE config.model
         ELSE config.model

\* Variant: the validated model is written back to the stored config.
get_crewai_llm_Caching(mgr, arg, installed) ==
    LET c == LLM_get_config(mgr, arg)
    IN  IF c.kind = "raise" THEN [self |-> mgr, out |-> c]
        ELSE [self |->
                  [mgr EXCEPT !.configs =
                      [i \in 1..Len(mgr.configs) |->
                          IF mgr.configs[i].provider = c.config.provider
                          THEN [mgr.configs[i] EXCEPT
                                   !.model = validate_model_format(c.config)]
                          ELSE mgr.configs[i]]],
              out |-> IF ~installed
                      THEN Raise("ImportError", c.config.provider)
                      ELSE [kind |-> "client",
                            provider |-> c.config.provider,
                            model |-> validate_model_format(c.config),
                            api_key |-> c.config.api_key]]

\* get_crewai_llm(provider): the manager after the call, and the client
\* built or the exception raised.  `installed` tells whether the import of
\* the provider's client library succeeds.
get_crewai_llm(mgr, arg, installed) ==
    LET c == LLM_get_config(mgr, arg)
    IN  IF c.kind = "raise" THEN [self |-> mgr, out |-> c]
        ELSE [self |-> mgr,
              out |-> IF ~installed
                      THEN Raise("ImportError", c.config.provider)
                      ELSE [kind |-> "client",
                            provider |-> c.config.provider,
                            model |-> validate_model_format(c.config),
                            api_key |-> c.config.api_key]]

\* The texts a *_MODEL variable or an LLMConfig.model is given: with, without
\* and with part of the prefixes, empty, and with the prefix twice.
ModelTexts ==
    {h \o t : h \in {<<>>, deepseek_prefix, deepseek_prefix \o deepseek_prefix,
                      <<"d", "e", "e", "p", "s", "e", "e", "k">>, grok_start, grok_prefix,
                      grok_prefix \o grok_prefix, <<"g", "r", "o">>,
                      <<"G", "r", "o", "k", "-">>},
              t \in {<<>>, <<"r", "1">>}}

\* The environments that also set the model variables.  A model variable
\* that is unset has no entry.
LLMModelEnvs ==
    {("OPENAI_API_KEY" :> None) @@ ("ANTHROPIC_API_KEY" :> "key")
       @@ ("DEEPSEEK_API_KEY" :> dk) @@ ("GROK_API_KEY" :> gk)
       @@ ("DEFAULT_LLM" :> d) @@ m :
         dk \in {None, "key"}, gk \in {None, "key"},
         d \in {None, "grok", "deepseek"},
         m \in {<<>>} \cup [{"DEEPSEEK_MODEL"} -> ModelTexts]
                        \cup [{"GROK_MODEL"} -> ModelTexts]}

LLMModelInit ==
    /\ llm_env \in LLMModelEnvs
    /\ llm_manager = LLMConfigManager_init(llm_env)
    /\ llm_ret = LLMIdleRet

LLMIsProviderAvailable ==
    /\ llm_ret.op = "none"
    /\ \E i \in 1..Len(LLMProvider) :
        /\ llm_ret' = [op |-> "is_provider_available",
                       arg |-> EnumArg(LLMProvider[i]),
                       out |-> [kind |-> "bool",
                                bool |-> LLM_is_provider_available(
                                             llm_manager, LLMProvider[i])]]
        /\ UNCHANGED <<llm_env, llm_manager, s_vars, t_vars, a_vars, app_vars>>

LLMGetCrewaiLLM ==
    /\ llm_ret.op = "none"
    /\ \E arg \in LLMArgs, installed \in BOOLEAN :
        LET r == get_crewai_llm(llm_manager, arg, installed)
        IN  /\ llm_manager' = r.self
            /\ llm_ret' = [op |-> "get_crewai_llm", arg |-> arg,
                           out |-> r.out]
            /\ UNCHANGED <<llm_env, s_vars, t_vars, a_vars, app_vars>>

\* _validate_model_format applied to a config of any provider and model.
LLMValidateModelFormat ==
    /\ llm_ret.op = "none"
    /\ \E i \in 1..Len(LLMProvider), model \in ModelTexts :
        LET config == [provider |-> LLMProvider[i], model |-> model,
                       api_key |-> None]
        IN  /\ llm_ret' = [op |-> "_validate_model_format",
                           arg |-> [type |-> "config", v |-> config],
                           out |-> [kind |-> "model",
                                    model |-> validate_model_format(config)]]
            /\ UNCHANGED <<llm_env, llm_manager, s_vars, t_vars, a_vars, app_vars>>

ModelNext ==
    \/ LLMGetConfig
    \/ LLMGetCrewaiLLM
    \/ LLMValidateModelFormat
    \/ LLMReturn

-----------------------------------------------------------------------------
(* SearchConfigManager: src/src/config/search_config.py *)

\* class SearchProvider(Enum), members in declaration order (by value).
SearchProvider == <<"searxng", "tavily", "google", "serpapi">>

\* SearchProvider(value): the member with that value, or ValueError.
SearchProvider_call(value) ==
    IF value \in Range(SearchProvider) THEN value ELSE "ValueError"

SearchKeyVars == {"TAVILY_API_KEY", "GOOGLE_API_KEY", "GOOGLE_CSE_ID",
                  "SERPAPI_KEY"}

DefaultSearchValues == {None, "searxng", "tavily", "Tavily", "google",
                        "serpapi", "bogus"}

SearchEnvs == {k @@ ("DEFAULT_SEARCH_PROVIDER" :> d) :
                 k \in [SearchKeyVars -> KeyValues],
                 d \in DefaultSearchValues}

Search_get_default_provider(env) ==
    LET default_search ==
            lower(getenv(env, "DEFAULT_SEARCH_PROVIDER", "searxng"))
    IN  IF SearchProvider_call(default_search) = "ValueError"
        THEN "searxng"
        ELSE SearchProvider_call(default_search)

\* NoConfig, or the SearchConfig of the provider.
Search_load_provider_config(env, provider) ==
    CASE provider = "searxng" ->
           [provider |-> provider, api_key |-> getenv(env, "SEARXNG_API_KEY", None)]
      [] provider = "google" ->
           IF ~Truthy(getenv(env, "GOOGLE_API_KEY", None))
              \/ ~Truthy(getenv(env, "GOOGLE_CSE_ID", None))
           THEN NoConfig
           ELSE [provider |-> provider,
                 api_key |-> getenv(env, "GOOGLE_API_KEY", None)]
      [] provider = "tavily" ->
           IF ~Truthy(getenv(env, "TAVILY_API_KEY", None))
           THEN NoConfig
           ELSE [provider |-> provider,
                 api_key |-> getenv(env, "TAVILY_API_KEY", None)]
      [] provider = "serpapi" ->
           IF ~Truthy(getenv(env, "SERPAPI_KEY", None))
           THEN NoConfig
           ELSE [provider |-> provider,
                 api_key |-> getenv(env, "SERPAPI_KEY", None)]
      [] OTHER -> NoConfig

RECURSIVE Search_load_from(_, _)
Search_load_from(env, i) ==
    IF i > Len(SearchProvider) THEN <<>>
    ELSE LET config == Search_load_provider_config(env, SearchProvider[i])
         IN  (IF config = NoConfig THEN <<>> ELSE <<config>>)
             \o Search_load_from(env, i + 1)

Search_load_configurations(env) == Search_load_from(env, 1)

SearchConfigManager_init(env) ==
    [configs |-> Search_load_configurations(env),
     default_provider |-> Search_get_default_provider(env)]

Search_get_available_providers(mgr) == keys(mgr.configs)

Search_is_provider_available(mgr, provider) ==
    provider \in Range(keys(mgr.configs))

\* Arguments of get_config and search: None, a member, or a value that is
\* no member (a str is never a key of self.configs).
SearchArgs ==
    {NoArg} \cup {EnumArg(SearchProvider[i]) : i \in 1..Len(SearchProvider)}
            \cup {StrArg("bogus")}

\* Variant: an unavailable provider falls back to the last available one.
Search_get_config_Last(mgr, arg) ==
    LET provider == IF arg.type = "none" THEN mgr.default_provider ELSE arg.v
        available == Search_get_available_providers(mgr)
    IN  IF ~(provider \in Range(keys(mgr.configs)))
        THEN IF available # <<>>
             THEN [kind |-> "config",
                   config |-> item(mgr.configs, available[Len(available)])]
             ELSE Raise("ValueError", "Nenhum provedor de busca configurado")
        ELSE [kind |-> "config", config |-> item(mgr.configs, provider)]

\* [kind |-> "config", config |-> c], or the ValueError raised.
Search_get_config(mgr, arg) ==
    LET provider == IF arg.type = "none" THEN mgr.default_provider ELSE arg.v
        available == Search_get_available_providers(mgr)
    IN  IF ~(provider \in Range(keys(mgr.configs)))
        THEN IF available # <<>>
             THEN [kind |-> "config",
                   config |-> item(mgr.configs, available[1])]
             ELSE Raise("ValueError", "Nenhum provedor de busca configurado")
        ELSE [kind |-> "config", config |-> item(mgr.configs, provider)]

\* Depth at which the interpreter stops a chain of nested search() calls
\* with RecursionError (sys.getrecursionlimit(), scaled down).
RecursionLimit == 4

\* outcomes[d]: whether the request made by the d-th nested call succeeds.
Outcomes == [1..RecursionLimit -> {"ok", "fail"}]

Attempt(provider, outcome) == [provider |-> provider, outcome |-> outcome]

\* Variant: the handler re-raises without trying another provider.
search_NoAlternative(mgr, arg, outcomes, depth) ==
    LET c == Search_get_config(mgr, arg)
    IN  IF c.kind = "raise"
        THEN [attempts |-> <<>>, out |-> c]
        ELSE IF outcomes[depth] = "ok"
             THEN [attempts |-> <<Attempt(c.config.provider, "ok")>>,
                   out |-> [kind |-> "results",
                            source |-> c.config.provider]]
             ELSE [attempts |-> <<Attempt(c.config.provider, "fail")>>,
                   out |-> Raise("RequestFailed", c.config.provider)]

\* search(query, provider): the requests attempted, in order, and what the
\* call returns or raises.  The recursive call is made inside the except
\* block, so what it raises leaves every enclosing call as well.
RECURSIVE search(_, _, _, _)
search(mgr, arg, outcomes, depth) ==
    IF depth > RecursionLimit
    THEN [attempts |-> <<>>,
          out |-> Raise("RecursionError", "maximum recursion depth exceeded")]
    ELSE
    LET c == Search_get_config(mgr, arg)
    IN  IF c.kind = "raise"
        THEN [attempts |-> <<>>, out |-> c]
        ELSE IF outcomes[depth] = "ok"
             THEN [attempts |-> <<Attempt(c.config.provider, "ok")>>,
                   out |-> [kind |-> "results",
                            source |-> c.config.provider]]
             ELSE LET available ==
                          SelectSeq(Search_get_available_providers(mgr),
                                    LAMBDA p : p # c.config.provider)
                  IN  IF available # <<>>
                      THEN LET rec == search(mgr, EnumArg(available[1]),
                                             outcomes, depth + 1)
                           IN  [attempts |->
                                    <<Attempt(c.config.provider, "fail")>>
                                    \o rec.attempts,
                                out |-> rec.out]
                      ELSE [attempts |->
                                <<Attempt(c.config.provider, "fail")>>,
                            out |-> Raise("RequestFailed",
                                          c.config.provider)]

SearchIdleRet == [op |-> "none", arg |-> NoArg, outcomes |-> <<>>,
                  attempts |-> <<>>, out |-> [kind |-> "none"]]

SearchInit ==
    /\ s_env \in SearchEnvs
    /\ search_manager = SearchConfigManager_init(s_env)
    /\ s_ret = SearchIdleRet

SearchIdle ==
    /\ s_env = [k \in SearchKeyVars \cup {"DEFAULT_SEARCH_PROVIDER"} |-> None]
    /\ search_manager = SearchConfigManager_init(s_env)
    /\ s_ret = SearchIdleRet

SearchGetConfig ==
    /\ s_ret.op = "none"
    /\ \E arg \in SearchArgs :
        /\ s_ret' = [op |-> "get_config", arg |-> arg, outcomes |-> <<>>,
                     attempts |-> <<>>,
                     out |-> Search_get_config(search_manager, arg)]
        /\ UNCHANGED <<s_env, search_manager, llm_vars, t_vars, a_vars, app_vars>>

SearchGetAvailableProviders ==
    /\ s_ret.op = "none"
    /\ s_ret' = [op |-> "get_available_providers", arg |-> NoArg,
                 outcomes |-> <<>>, attempts |-> <<>>,
                 out |-> [kind |-> "list",
                          list |-> Search_get_available_providers(
                                       search_manager)]]
    /\ UNCHANGED <<s_env, search_manager, llm_vars, t_vars, a_vars, app_vars>>

SearchSearch ==
    /\ s_ret.op = "none"
    /\ \E arg \in SearchArgs, outcomes \in Outcomes :
        LET r == search(search_manager, arg, outcomes, 1)
        IN  /\ s_ret' = [op |-> "search", arg |-> arg,
                         outcomes |-> outcomes,
                         attempts |-> r.attempts, out |-> r.out]
            /\ UNCHANGED <<s_env, search_manager, llm_vars, t_vars, a_vars, app_vars>>

\* The caller takes the result.
SearchReturn ==
    /\ s_ret.op # "none"
    /\ s_ret' = SearchIdleRet
    /\ UNCHANGED <<s_env, search_manager, llm_vars, t_vars, a_vars, app_vars>>

SearchIsProviderAvailable ==
    /\ s_ret.op = "none"
    /\ \E i \in 1..Len(SearchProvider) :
        /\ s_ret' = [op |-> "is_provider_available",
                     arg |-> EnumArg(SearchProvider[i]),
                     outcomes |-> <<>>, attempts |-> <<>>,
                     out |-> [kind |-> "bool",
                              bool |-> Search_is_provider_available(
                                           search_manager, SearchProvider[i])]]
        /\ UNCHANGED <<s_env, search_manager, llm_vars, t_vars, a_vars, app_vars>>

SearchNext ==
    \/ SearchGetConfig
    \/ SearchGetAvailableProviders
    \/ SearchSearch
    \/ SearchReturn

-----------------------------------------------------------------------------
(* ConfigManager: src/src/config/__init__.py *)

\* ConfigManager.validate_configuration: the validation dict.
validate_configuration(llm_mgr, search_mgr) ==
    [valid |-> LLM_get_available_providers(llm_mgr) # <<>>,
     errors |->
         IF LLM_get_available_providers(llm_mgr) = <<>>
         THEN <<"Nenhum provedor de LLM configurado">>
         ELSE <<>>,
     warnings |->
         (IF Search_get_available_providers(search_mgr) = <<>>
          THEN <<"Nenhum provedor de busca configurado">>
          ELSE <<>>)
         \o (IF ~(\E p \in {"openai", "anthropic"} :
                     LLM_is_provider_available(llm_mgr, p))
             THEN <<"Nenhum provedor de LLM principal configurado">>
             ELSE <<>>)]

ValidateConfiguration ==
    /\ llm_ret.op = "none"
    /\ llm_ret' = [op |-> "validate_configuration", arg |-> NoArg,
                   out |-> [kind |-> "validation",
                            validation |-> validate_configuration(
                                               llm_manager, search_manager)]]
    /\ UNCHANGED <<llm_env, llm_manager, s_vars, t_vars, a_vars, app_vars>>

ConfigNext ==
    \/ ValidateConfiguration
    \/ LLMGetAvailableProviders
    \/ LLMReturn
    \/ SearchGetConfig
    \/ SearchGetAvailableProviders
    \/ SearchReturn

-----------------------------------------------------------------------------
(* SearchTools: src/src/tools/search_tools.py *)

ToolsEnvs ==
    {[SEARXNG_URL |-> u, SEARXNG_TIMEOUT |-> t, GOOGLE_API_KEY |-> g,
      GOOGLE_CSE_ID |-> c, NEWS_API_KEY |-> n] :
        u \in {None, "", "http://searxng"}, t \in {None, "30", "abc"},
        g \in KeyValues, c \in KeyValues, n \in KeyValues}

\* What each backend answers when it is sent a request.
Backends == [{"searxng", "google", "newsapi"} -> {"ok", "fail"}]

\* int(s) on the values SEARXNG_TIMEOUT may hold.
int(s) == IF s = "30" THEN [kind |-> "int", v |-> 30] ELSE Raise("ValueError", s)

Text(text) == [kind |-> "text", text |-> text]

\* First line of the text _simulate_search returns.
simulate_search == Text("Busca simulada (API nao configurada)")

\* First line of the text _simulate_news_search returns.
simulate_news_search == Text("Noticias simuladas")

\* [attempted, out]: the backends sent a request, and the text returned or
\* the exception re-raised.
search_with_searxng(env, backends) ==
    IF int(getenv(env, "SEARXNG_TIMEOUT", "30")).kind = "raise"
    THEN [attempted |-> <<>>,
          out |-> int(getenv(env, "SEARXNG_TIMEOUT", "30"))]
    ELSE IF backends["searxng"] = "ok"
         THEN [attempted |-> <<"searxng">>,
               out |-> Text("Resultados da busca SearXNG")]
         ELSE [attempted |-> <<"searxng">>,
               out |-> Raise("RequestException", "searxng")]

search_with_google(env, backends) ==
    IF backends["google"] = "ok"
    THEN [attempted |-> <<"google">>,
          out |-> Text("Resultados da busca Google")]
    ELSE [attempted |-> <<"google">>,
          out |-> Raise("RequestException", "google")]

\* The try block of search_internet.
search_internet_try(env, backends) ==
    IF Truthy(getenv(env, "SEARXNG_URL", None))
    THEN search_with_searxng(env, backends)
    ELSE IF Truthy(getenv(env, "GOOGLE_API_KEY", None))
            /\ Truthy(getenv(env, "GOOGLE_CSE_ID", None))
         THEN search_with_google(env, backends)
         ELSE [attempted |-> <<>>, out |-> simulate_search]

\* Variant: no except clause, the backend's exception leaves the call.
search_internet_NoExcept(env, backends) ==
    search_internet_try(env, backends)

search_internet(env, backends) ==
    LET r == search_internet_try(env, backends)
    IN  IF r.out.kind = "raise"
        THEN [attempted |-> r.attempted, out |-> simulate_search]
        ELSE r

search_news(env, backends) ==
    IF ~Truthy(getenv(env, "NEWS_API_KEY", None))
    THEN [attempted |-> <<>>, out |-> simulate_news_search]
    ELSE IF backends["newsapi"] = "ok"
         THEN [attempted |-> <<"newsapi">>,
               out |-> Text("Noticias recentes")]
         ELSE [attempted |-> <<"newsapi">>, out |-> simulate_news_search]

ToolsIdleRet == [op |-> "none", backends |-> [b \in {} |-> "ok"],
                 attempted |-> <<>>, out |-> [kind |-> "none"]]

ToolsInit ==
    /\ t_env \in ToolsEnvs
    /\ t_ret = ToolsIdleRet

ToolsIdle ==
    /\ t_env = [SEARXNG_URL |-> None, SEARXNG_TIMEOUT |-> None,
                GOOGLE_API_KEY |-> None, GOOGLE_CSE_ID |-> None,
                NEWS_API_KEY |-> None]
    /\ t_ret = ToolsIdleRet

ToolsSearchInternet ==
    /\ t_ret.op = "none"
    /\ \E backends \in Backends :
        LET r == search_internet(t_env, backends)
        IN  /\ t_ret' = [op |-> "search_internet", backends |-> backends,
                         attempted |-> r.attempted, out |-> r.out]
            /\ UNCHANGED <<t_env, llm_vars, s_vars, a_vars, app_vars>>

ToolsSearchNews ==
    /\ t_ret.op = "none"
    /\ \E backends \in Backends :
        LET r == search_news(t_env, backends)
        IN  /\ t_ret' = [op |-> "search_news", backends |-> backends,
                         attempted |-> r.attempted, out |-> r.out]
            /\ UNCHANGED <<t_env, llm_vars, s_vars, a_vars, app_vars>>

\* The caller takes the result.
ToolsReturn ==
    /\ t_ret.op # "none"
    /\ t_ret' = ToolsIdleRet
    /\ UNCHANGED <<t_env, llm_vars, s_vars, a_vars, app_vars>>

ToolsNext ==
    \/ ToolsSearchInternet
    \/ ToolsSearchNews
    \/ ToolsReturn

-----------------------------------------------------------------------------
(* Market data: src/src/config/mcp_client.py,                              *)
(* src/src/config/alpha_vantage_config.py, src/src/tools/yfinance_tools.py *)

\* MCP_AVAILABLE is whether "import mcp" succeeded when the module loaded.
AggEnvs ==
    {[MCP_AVAILABLE |-> m, ALPHA_VANTAGE_API_KEY |-> k,
      ALPHA_VANTAGE_MCP_ENABLED |-> me, ALPHA_VANTAGE_ENABLED |-> e,
      ALPHA_VANTAGE_PREMIUM |-> p] :
        m \in BOOLEAN, k \in KeyValues, me \in {None, "true", "TRUE", "false"},
        e \in {None, "true", "false"}, p \in {None, "true"}}

\* api_key or ""
OrEmpty(v) == IF Truthy(v) THEN v ELSE ""

\* The largest ALPHA_VANTAGE_MCP_RETRIES an environment holds.
MaxRetries == 4

\* int(s) on the decimal texts ALPHA_VANTAGE_MCP_RETRIES may hold.
int_retries(s) == CHOOSE n \in 0..MaxRetries : ToString(n) = s

\* Variant: enabled follows ALPHA_VANTAGE_MCP_ENABLED alone.
MCP_load_config_NoKeyCheck(env) ==
    [api_key |-> OrEmpty(env.ALPHA_VANTAGE_API_KEY),
     enabled |-> (lower(getenv(env, "ALPHA_VANTAGE_MCP_ENABLED", "true"))
                    = "true"),
     max_retries |->
         int_retries(getenv(env, "ALPHA_VANTAGE_MCP_RETRIES", "3"))]

\* AlphaVantageMCPClient._load_config
MCP_load_config(env) ==
    [api_key |-> OrEmpty(env.ALPHA_VANTAGE_API_KEY),
     enabled |-> (lower(getenv(env, "ALPHA_VANTAGE_MCP_ENABLED", "true"))
                    = "true")
                 /\ Truthy(env.ALPHA_VANTAGE_API_KEY),
     max_retries |->
         int_retries(getenv(env, "ALPHA_VANTAGE_MCP_RETRIES", "3"))]

\* AlphaVantageMCPClient.is_available, is_mcp_available
is_mcp_available(env, cfg) ==
    env.MCP_AVAILABLE /\ cfg.mcp.enabled /\ Truthy(cfg.mcp.api_key)

\* AlphaVantageManager._load_config
AV_load_config(env) ==
    [api_key |-> OrEmpty(env.ALPHA_VANTAGE_API_KEY),
     enabled |-> (lower(getenv(env, "ALPHA_VANTAGE_ENABLED", "false"))
                    = "true")
                 /\ Truthy(env.ALPHA_VANTAGE_API_KEY),
     premium |-> lower(getenv(env, "ALPHA_VANTAGE_PREMIUM", "false")) = "true",
     mcp_enabled |-> Truthy(env.ALPHA_VANTAGE_API_KEY)]

\* AlphaVantageManager._validate_config
AV_validate_config(config) ==
    IF config.enabled /\ ~Truthy(config.api_key)
    THEN [config EXCEPT !.enabled = FALSE]
    ELSE config

AlphaVantageManager_init(env) == AV_validate_config(AV_load_config(env))

\* AlphaVantageManager.is_available
AV_is_available(cfg) == cfg.av.enabled /\ Truthy(cfg.av.api_key)

\* dict[key] = value
SetItem(d, key, value) == (key :> value) @@ d

\* key in dict
Has(d, key) == key \in DOMAIN d

\* What the MCP endpoint answers to a request: a non-empty result, an empty
\* result, or an error (transport error or MCP 'error' field).
Resp == {"data", "empty", "error"}

MCPStatements == {"income_statement", "balance_sheet", "cash_flow",
                  "earnings"}

\* Inputs of one fetch through MCP: run is whether
\* loop.run_until_complete raises.
MCPInputs ==
    {[run |-> r, company_overview |-> o, statements |-> st,
      time_series |-> ts] :
        r \in {"ok", "RuntimeError"}, o \in Resp,
        st \in [MCPStatements -> {"data", "error"}], ts \in Resp}

NoMCPInput ==
    [run |-> "ok", company_overview |-> "error",
     statements |-> [x \in MCPStatements |-> "error"],
     time_series |-> "error"]

\* get_company_overview_mcp, get_time_series_mcp: a dict, or None
\* (here FALSE) on an empty result or any exception.
mcp_block(resp) == resp = "data"

\* get_financial_statements_mcp: the statements present, None (here {})
\* when there is none beyond the three metadata keys.
get_financial_statements_mcp(inp) ==
    {x \in MCPStatements : inp.statements[x] = "data"}

\* get_comprehensive_data_mcp
get_comprehensive_data_mcp(env, cfg, symbol, inp) ==
    IF ~is_mcp_available(env, cfg)
    THEN [mcp_available |-> FALSE]
    ELSE LET overview == mcp_block(inp.company_overview)
             financials == get_financial_statements_mcp(inp)
             time_series == mcp_block(inp.time_series)
             r0 == [symbol |-> symbol, mcp_available |-> TRUE,
                    mcp_source |-> TRUE, data_sources |-> <<>>]
             r1 == IF overview
                   THEN [SetItem(r0, "company_overview", "overview")
                           EXCEPT !.data_sources =
                                      Append(@, "company_overview")]
                   ELSE r0
             r2 == IF financials # {}
                   THEN [SetItem(r1, "financial_statements", financials)
                           EXCEPT !.data_sources =
                                      Append(@, "financial_statements")]
                   ELSE r1
             r3 == IF time_series
                   THEN [SetItem(r2, "time_series", "time_series")
                           EXCEPT !.data_sources =
                                      Append(@, "time_series")]
                   ELSE r2
         IN  r3

\* get_alpha_vantage_mcp_data: the dict, or the exception of
\* run_until_complete.
get_alpha_vantage_mcp_data(env, cfg, symbol, inp) ==
    IF ~is_mcp_available(env, cfg)
    THEN [kind |-> "dict", dict |-> [mcp_available |-> FALSE]]
    ELSE IF inp.run # "ok"
         THEN Raise(inp.run, "run_until_complete")
         ELSE [kind |-> "dict",
               dict |-> get_comprehensive_data_mcp(env, cfg, symbol, inp)]

\* get_mcp_context_structured: "" or the context text.
get_mcp_context(symbol, data) ==
    IF ~(Has(data, "mcp_source") /\ data.mcp_source)
    THEN ""
    ELSE "=== ALPHA VANTAGE MCP DATA ==="

\* The Alpha Vantage functions requested, in the order of the calls.
AVFunctions == <<"OVERVIEW", "EARNINGS", "CASH_FLOW", "INCOME_STATEMENT",
                 "BALANCE_SHEET">>

\* Key of enhanced_data filled from each function.
AVBlock(function) ==
    CASE function = "OVERVIEW" -> "company_overview"
      [] function = "EARNINGS" -> "earnings"
      [] function = "CASH_FLOW" -> "cash_flow"
      [] function = "INCOME_STATEMENT" -> "income_statement"
      [] function = "BALANCE_SHEET" -> "balance_sheet"

\* What each getter returns for the symbol: the block, or None (request
\* failed, error message, or no 'Symbol' in the answer).
AVInputs(premium) ==
    {f \in [Range(AVFunctions) -> {"data", "none"}] :
        premium \/ \A i \in 3..5 : f[AVFunctions[i]] = "none"}

NoAVInput == [f \in Range(AVFunctions) |-> "none"]

\* The getters of get_enhanced_financial_data from the i-th on.
RECURSIVE AV_collect(_, _, _, _)
AV_collect(r, inp, i, last) ==
    IF i > last THEN r
    ELSE AV_collect(
             [dict |-> IF inp[AVFunctions[i]] = "data"
                       THEN SetItem(r.dict, AVBlock(AVFunctions[i]),
                                    AVFunctions[i])
                       ELSE r.dict,
              requests |-> Append(r.requests, AVFunctions[i])],
             inp, i + 1, last)

\* Variant: the three statements are fetched for every account.
AV_get_enhanced_AllBlocks(cfg, symbol, inp) ==
    IF ~AV_is_available(cfg)
    THEN [dict |-> [alpha_vantage_available |-> FALSE], requests |-> <<>>]
    ELSE AV_collect([dict |-> [alpha_vantage_available |-> TRUE,
                               symbol |-> symbol],
                     requests |-> <<>>],
                    inp, 1, 5)

\* AlphaVantageManager.get_enhanced_financial_data: the dict returned and
\* the requests sent.
AV_get_enhanced_financial_data(cfg, symbol, inp) ==
    IF ~AV_is_available(cfg)
    THEN [dict |-> [alpha_vantage_available |-> FALSE], requests |-> <<>>]
    ELSE AV_collect([dict |-> [alpha_vantage_available |-> TRUE,
                               symbol |-> symbol],
                     requests |-> <<>>],
                    inp, 1, IF cfg.av.premium THEN 5 ELSE 2)

\* AlphaVantageManager.get_mcp_context: "" or the context text.
AV_get_mcp_context(cfg, symbol, inp) ==
    IF ~cfg.av.mcp_enabled
    THEN ""
    ELSE IF ~AV_get_enhanced_financial_data(cfg, symbol, inp)
                 .dict.alpha_vantage_available
         THEN ""
         ELSE "=== ALPHA VANTAGE ENHANCED DATA ==="

Symbols == {"PETR4.SA", "AAPL"}

\* symbol.replace('.SA', '')
replace_SA(symbol) == IF symbol = "PETR4.SA" THEN "PETR4" ELSE symbol

\* YfinanceTools.obter_info_completa: the base (Yahoo Finance) record of
\* the symbol; always a result, possibly sparse.
obter_info_completa(symbol) == [symbol |-> symbol]

\* Lines 448-473: [done, d], done when the function returns from the MCP
\* branch.
mcp_stage(env, cfg, symbol, enhanced_data, mcp_in) ==
    IF is_mcp_available(env, cfg)
    THEN LET r == get_alpha_vantage_mcp_data(env, cfg, replace_SA(symbol),
                                             mcp_in)
         IN  IF r.kind = "raise"
             THEN [done |-> FALSE,
                   d |-> SetItem(enhanced_data, "mcp_error", r.error)]
             ELSE IF Has(r.dict, "mcp_available") /\ r.dict.mcp_available
                  THEN LET d1 == SetItem(SetItem(enhanced_data, "mcp_data",
                                                 r.dict),
                                         "primary_source", "mcp")
                           mcp_context ==
                               get_mcp_context(replace_SA(symbol), r.dict)
                       IN  [done |-> TRUE,
                            d |-> IF mcp_context # ""
                                  THEN SetItem(d1, "mcp_context",
                                               mcp_context)
                                  ELSE d1]
                  ELSE [done |-> FALSE, d |-> enhanced_data]
    ELSE [done |-> FALSE, d |-> enhanced_data]

\* Lines 475-496.
av_stage(cfg, symbol, enhanced_data, av_in) ==
    IF AV_is_available(cfg)
    THEN LET av_data == AV_get_enhanced_financial_data(
                            cfg, replace_SA(symbol), av_in).dict
         IN  IF Has(av_data, "alpha_vantage_available")
                /\ av_data.alpha_vantage_available
             THEN LET d1 == SetItem(SetItem(enhanced_data, "alpha_vantage",
                                            av_data),
                                    "primary_source", "alpha_vantage")
                      context == AV_get_mcp_context(cfg, replace_SA(symbol),
                                                    av_in)
                  IN  IF context # ""
                      THEN SetItem(d1, "alpha_vantage_context", context)
                      ELSE d1
             ELSE enhanced_data
    ELSE enhanced_data

\* Variant: the Alpha Vantage branch runs after a successful MCP branch
\* too and overwrites primary_source.
get_enhanced_NoReturn(env, cfg, symbol, mcp_in, av_in) ==
    LET d0 == [symbol |-> symbol,
               yahoo_finance |-> obter_info_completa(symbol),
               mcp_available |-> is_mcp_available(env, cfg),
               alpha_vantage_available |-> AV_is_available(cfg)]
        m == mcp_stage(env, cfg, symbol, d0, mcp_in)
        a == av_stage(cfg, symbol, m.d, av_in)
    IN  IF ~Has(a, "primary_source")
        THEN SetItem(a, "primary_source", "yahoo_finance")
        ELSE a

\* YfinanceTools.get_enhanced_financial_data_with_mcp: the record returned.
get_enhanced_financial_data_with_mcp(env, cfg, symbol, mcp_in, av_in) ==
    LET d0 == [symbol |-> symbol,
               yahoo_finance |-> obter_info_completa(symbol),
               mcp_available |-> is_mcp_available(env, cfg),
               alpha_vantage_available |-> AV_is_available(cfg)]
        m == mcp_stage(env, cfg, symbol, d0, mcp_in)
    IN  IF m.done
        THEN m.d
        ELSE LET a == av_stage(cfg, symbol, m.d, av_in)
             IN  IF ~Has(a, "primary_source")
                 THEN SetItem(a, "primary_source", "yahoo_finance")
                 ELSE a

\* Whether the call reads the Alpha Vantage inputs.
ReachesAV(env, cfg, mcp_in) ==
    /\ AV_is_available(cfg)
    /\ ~(is_mcp_available(env, cfg) /\ mcp_in.run = "ok")

AggIdleRet == [op |-> "none", symbol |-> "", mcp_in |-> NoMCPInput,
               av_in |-> NoAVInput, out |-> [kind |-> "none"]]

AggConfig(env) ==
    [mcp |-> MCP_load_config(env), av |-> AlphaVantageManager_init(env)]

\* No compare_data_sources call answered yet.
CompareIdleRet == [op |-> "none", symbol |-> "", yf_data |-> <<>>,
                   av_overview |-> [kind |-> "none"],
                   out |-> [kind |-> "none"]]

\* No _make_mcp_request call in progress.
RequestIdle == [pc |-> "idle", attempt |-> 0, log |-> <<>>,
                out |-> [kind |-> "none"]]

AggInit ==
    /\ a_env \in AggEnvs
    /\ a_cfg = AggConfig(a_env)
    /\ a_ret = AggIdleRet
    /\ cmp_ret = CompareIdleRet
    /\ req = RequestIdle

AggIdle ==
    /\ a_env = [MCP_AVAILABLE |-> FALSE, ALPHA_VANTAGE_API_KEY |-> None,
                ALPHA_VANTAGE_MCP_ENABLED |-> None,
                ALPHA_VANTAGE_ENABLED |-> None,
                ALPHA_VANTAGE_PREMIUM |-> None]
    /\ a_cfg = AggConfig(a_env)
    /\ a_ret = AggIdleRet
    /\ cmp_ret = CompareIdleRet
    /\ req = RequestIdle

AggGetEnhanced ==
    /\ a_ret.op = "none"
    /\ \E symbol \in Symbols,
          mcp_in \in (IF is_mcp_available(a_env, a_cfg)
                      THEN MCPInputs ELSE {NoMCPInput}),
          av_in \in AVInputs(a_cfg.av.premium) :
        /\ ReachesAV(a_env, a_cfg, mcp_in) \/ av_in = NoAVInput
        /\ a_ret' = [op |-> "get_enhanced_financial_data_with_mcp",
                     symbol |-> symbol, mcp_in |-> mcp_in, av_in |-> av_in,
                     out |-> [kind |-> "dict",
                              dict |-> get_enhanced_financial_data_with_mcp(
                                           a_env, a_cfg, symbol, mcp_in,
                                           av_in)]]
        /\ UNCHANGED <<a_env, a_cfg, cmp_ret, req, llm_vars, s_vars, t_vars, app_vars>>

\* The caller takes the record.
AggReturn ==
    /\ a_ret.op # "none"
    /\ a_ret' = AggIdleRet
    /\ UNCHANGED <<a_env, a_cfg, cmp_ret, req, llm_vars, s_vars, t_vars, app_vars>>

AggNext ==
    \/ AggGetEnhanced
    \/ AggReturn

\* AlphaVantageManager.get_enhanced_financial_data called on its own; av_in
\* is what the service would answer to each function if it were asked.
AVGetEnhanced ==
    /\ a_ret.op = "none"
    /\ \E symbol \in Symbols, av_in \in AVInputs(TRUE) :
        LET r == AV_get_enhanced_financial_data(a_cfg, symbol, av_in)
        IN  /\ a_ret' = [op |-> "get_enhanced_financial_data",
                         symbol |-> symbol, mcp_in |-> NoMCPInput,
                         av_in |-> av_in,
                         out |-> [kind |-> "dict", dict |-> r.dict,
                                  requests |-> r.requests]]
            /\ UNCHANGED <<a_env, a_cfg, cmp_ret, req, llm_vars, s_vars, t_vars, app_vars>>

AVNext ==
    \/ AVGetEnhanced
    \/ AggReturn

-----------------------------------------------------------------------------
(* YfinanceTools.compare_data_sources: src/src/tools/yfinance_tools.py *)

\* A value of a metric: None, a number or a text float() accepts (kept as
\* the number), or a text float() rejects with ValueError.
NoValue == [t |-> "none", n |-> 0]
Num(n) == [t |-> "num", n |-> n]
NotNumeric == [t |-> "text", n |-> 0]

\* metrics_map, in insertion order.
metrics_map ==
    <<[metric |-> "market_cap", yf_key |-> "marketCap",
       av_key |-> "market_cap"],
      [metric |-> "pe_ratio", yf_key |-> "trailingPE", av_key |-> "pe_ratio"],
      [metric |-> "beta", yf_key |-> "beta", av_key |-> "beta"],
      [metric |-> "eps", yf_key |-> "trailingEps", av_key |-> "eps"],
      [metric |-> "book_value", yf_key |-> "bookValue",
       av_key |-> "book_value"]>>

abs(x) == IF x < 0 THEN -x ELSE x

\* diff_pct < pct, for diff_pct = abs(yf_num - av_num) / yf_num * 100 and
\* yf_num # 0: the quotient is compared by multiplying both sides by
\* yf_num, which turns the comparison round when yf_num is negative.
diff_pct_below(yf_num, av_num, pct) ==
    IF yf_num > 0
    THEN abs(yf_num - av_num) * 100 < pct * yf_num
    ELSE abs(yf_num - av_num) * 100 > pct * yf_num

\* The 'match_status' of a metric whose two values are not None.
match_status(yf_value, av_value) ==
    IF yf_value.t = "text" \/ av_value.t = "text"
    THEN "format_error"
    ELSE IF yf_value.n # 0
         THEN IF diff_pct_below(yf_value.n, av_value.n, 5)
              THEN "close"
              ELSE "different"
         ELSE "close"

\* comparison['metrics_comparison'] after the loop has handled the metrics
\* from the i-th on.
RECURSIVE compare_metrics(_, _, _, _)
compare_metrics(metrics_comparison, yf_data, av_overview, i) ==
    IF i > Len(metrics_map) THEN metrics_comparison
    ELSE LET yf_value == yf_data[metrics_map[i].yf_key]
             av_value == av_overview[metrics_map[i].av_key]
         IN  compare_metrics(
                 IF yf_value.t # "none" /\ av_value.t # "none"
                 THEN SetItem(metrics_comparison, metrics_map[i].metric,
                              [yahoo_finance |-> yf_value,
                               alpha_vantage |-> av_value,
                               match_status |->
                                   match_status(yf_value, av_value)])
                 ELSE metrics_comparison,
                 yf_data, av_overview, i + 1)

\* compare_data_sources(symbol).  yf_data is what obter_info_completa
\* returns for the symbol and av_overview what get_company_overview does:
\* [kind |-> "none"] for None, else [kind |-> "dict", d |-> the overview].
compare_data_sources(cfg, symbol, yf_data, av_overview) ==
    IF ~AV_is_available(cfg)
    THEN [comparison_available |-> FALSE,
          reason |-> "Alpha Vantage not configured"]
    ELSE IF av_overview.kind = "none"
         THEN [comparison_available |-> FALSE,
               reason |-> "No Alpha Vantage data available"]
         ELSE [comparison_available |-> TRUE,
               symbol |-> symbol,
               metrics_comparison |->
                   compare_metrics(<<>>, yf_data, av_overview.d, 1)]

\* The values a metric is given by either source.
CmpValues ==
    {NoValue, NotNumeric}
      \cup {Num(n) : n \in {-100, -50, 0, 50, 95, 96, 100, 104, 105}}

YfKeys == {metrics_map[i].yf_key : i \in 1..Len(metrics_map)}

AvKeys == {metrics_map[i].av_key : i \in 1..Len(metrics_map)}

\* The records of the two sources: one metric takes every pair of values,
\* the other metrics are all absent or all equal in both sources.
CompareInputs ==
    {[yf_data |-> [k \in YfKeys |->
                      IF k = metrics_map[i].yf_key THEN y ELSE o],
      av_overview |-> [kind |-> "dict",
                       d |-> [k \in AvKeys |->
                                 IF k = metrics_map[i].av_key
                                 THEN a ELSE o]]] :
        i \in 1..Len(metrics_map), y \in CmpValues, a \in CmpValues,
        o \in {NoValue, Num(100)}}

NoCompareInput ==
    [yf_data |-> [k \in YfKeys |-> NoValue],
     av_overview |-> [kind |-> "none"]]

\* The environments of the comparison: the Alpha Vantage key and switch.
CompareEnvs ==
    {e \in AggEnvs : /\ ~e.MCP_AVAILABLE
                     /\ e.ALPHA_VANTAGE_MCP_ENABLED = None
                     /\ e.ALPHA_VANTAGE_PREMIUM = None}

CompareInit ==
    /\ a_env \in CompareEnvs
    /\ a_cfg = AggConfig(a_env)
    /\ a_ret = AggIdleRet
    /\ cmp_ret = CompareIdleRet
    /\ req = RequestIdle

CompareDataSources ==
    /\ cmp_ret.op = "none"
    /\ \E symbol \in Symbols,
          inp \in (IF AV_is_available(a_cfg)
                   THEN CompareInputs \cup {NoCompareInput}
                   ELSE {NoCompareInput}) :
        /\ cmp_ret' = [op |-> "compare_data_sources", symbol |-> symbol,
                       yf_data |-> inp.yf_data,
                       av_overview |-> inp.av_overview,
                       out |-> [kind |-> "dict",
                                dict |-> compare_data_sources(
                                             a_cfg, symbol, inp.yf_data,
                                             inp.av_overview)]]
        /\ UNCHANGED <<a_env, a_cfg, a_ret, req, llm_vars, s_vars, t_vars, app_vars>>

\* The caller takes the comparison.
CompareReturn ==
    /\ cmp_ret.op # "none"
    /\ cmp_ret' = CompareIdleRet
    /\ UNCHANGED <<a_env, a_cfg, a_ret, req, llm_vars, s_vars, t_vars, app_vars>>

CompareNext ==
    \/ CompareDataSources
    \/ CompareReturn

-----------------------------------------------------------------------------
(* AlphaVantageMCPClient._make_mcp_request: src/src/config/mcp_client.py *)

\* The environments of the MCP client, with the number of retries set.
RequestEnvs ==
    {[MCP_AVAILABLE |-> m, ALPHA_VANTAGE_API_KEY |-> k,
      ALPHA_VANTAGE_MCP_ENABLED |-> me, ALPHA_VANTAGE_ENABLED |-> None,
      ALPHA_VANTAGE_PREMIUM |-> None,
      ALPHA_VANTAGE_MCP_RETRIES |-> r] :
        m \in BOOLEAN, k \in KeyValues, me \in {None, "TRUE", "false"},
        r \in {None} \cup {ToString(n) : n \in 0..MaxRetries}}

RequestInit ==
    /\ a_env \in RequestEnvs
    /\ a_cfg = AggConfig(a_env)
    /\ a_ret = AggIdleRet
    /\ cmp_ret = CompareIdleRet
    /\ req = RequestIdle

\* What one POST ends with: a body without 'error', a body with an 'error'
\* field, an aiohttp.ClientError (connection failure, or the HTTP status
\* raise_for_status rejects), or an exception that is no ClientError
\* (asyncio.TimeoutError).
Responses == {"result", "mcp_error", "client_error", "timeout"}

Post(attempt, response) ==
    [ev |-> "post", attempt |-> attempt, response |-> response, seconds |-> 0]

Sleep(attempt, seconds) ==
    [ev |-> "sleep", attempt |-> attempt, response |-> "", seconds |-> seconds]

\* Variant: the same pause before every retry.
backoff_Constant(attempt) == 1

\* 2 ** attempt
backoff(attempt) == 2 ^ attempt

\* Lines 82-96 and the entry of the loop: the call raises when the client
\* is not available, falls through an empty range(max_retries) to the
\* final raise, or starts the first attempt.
McpRequestCall ==
    /\ req.pc = "idle"
    /\ req' = IF ~is_mcp_available(a_env, a_cfg)
              THEN [req EXCEPT !.pc = "done",
                               !.out = Raise("ValueError",
                                             "Alpha Vantage MCP não está configurado")]
              ELSE IF a_cfg.mcp.max_retries = 0
                   THEN [req EXCEPT !.pc = "done",
                                    !.out = Raise("RuntimeError",
                                                  "Falha após todas as tentativas")]
                   ELSE [req EXCEPT !.pc = "post", !.attempt = 0]
    /\ UNCHANGED <<a_env, a_cfg, a_ret, cmp_ret, llm_vars, s_vars, t_vars, app_vars>>

\* One pass of the try block: the POST and what becomes of its response.
McpRequestPost ==
    /\ req.pc = "post"
    /\ \E response \in Responses :
        req' = [req EXCEPT
                  !.log = Append(@, Post(req.attempt, response)),
                  !.pc = IF response = "client_error"
                            /\ req.attempt # a_cfg.mcp.max_retries - 1
                         THEN "sleep"
                         ELSE "done",
                  !.out = CASE response = "result" -> [kind |-> "result"]
                            [] response = "mcp_error" ->
                                 Raise("ValueError", "MCP Error")
                            [] response = "timeout" ->
                                 Raise("TimeoutError", "")
                            [] response = "client_error" ->
                                 IF req.attempt = a_cfg.mcp.max_retries - 1
                                 THEN Raise("ClientError", "")
                                 ELSE @]
    /\ UNCHANGED <<a_env, a_cfg, a_ret, cmp_ret, llm_vars, s_vars, t_vars, app_vars>>

\* await asyncio.sleep(2 ** attempt), then the next pass of the loop.
McpRequestSleep ==
    /\ req.pc = "sleep"
    /\ req' = [req EXCEPT
                  !.log = Append(@, Sleep(req.attempt, backoff(req.attempt))),
                  !.attempt = @ + 1,
                  !.pc = "post"]
    /\ UNCHANGED <<a_env, a_cfg, a_ret, cmp_ret, llm_vars, s_vars, t_vars, app_vars>>

\* The caller takes the result or the exception.
McpRequestReturn ==
    /\ req.pc = "done"
    /\ req' = RequestIdle
    /\ UNCHANGED <<a_env, a_cfg, a_ret, cmp_ret, llm_vars, s_vars, t_vars, app_vars>>

RequestNext ==
    \/ McpRequestCall
    \/ McpRequestPost
    \/ McpRequestSleep
    \/ McpRequestReturn

-----------------------------------------------------------------------------
(* StockAnalysisApp: src/main.py; MarketTasks:                             *)
(* src/.history/src/tasks/market_tasks_20250918121707.py                   *)

\* A dict with str keys, kept as the sequence of its items in insertion
\* order.
dict_keys(d) == [i \in 1..Len(d) |-> d[i].key]

dict_values(d) == [i \in 1..Len(d) |-> d[i].value]

\* key in d
dict_has(d, key) == \E i \in 1..Len(d) : d[i].key = key

\* d[key], for a key of d
dict_item(d, key) == d[CHOOSE i \in 1..Len(d) : d[i].key = key].value

\* d[key] = value, for a key d does not hold yet
dict_set(d, key, value) == Append(d, [key |-> key, value |-> value])

\* A missing Task (the None of tasks.get).
NoTask == [id |-> None, symbol |-> None, agent |-> None, context |-> <<>>]

\* d.get(key) on a dict of tasks
dict_get(d, key) == IF dict_has(d, key) THEN dict_item(d, key) ELSE NoTask

\* The analysis types of the command line, and two strings outside them.
AnalysisTypes == {"complete", "quick", "technical", "fundamental"}

AnalysisTypeArgs == AnalysisTypes \cup {"bogus", ""}

\* Some of the symbols of list_available_symbols.
AppSymbols == {"PETR4.SA", "VALE3.SA", "ITUB4.SA"}

\* Variant: the quick analysis also gets the day-trade agent.
create_agents_QuickDaytrader(analysis_type) ==
    IF analysis_type \in {"complete", "quick"}
    THEN dict_set(dict_set(dict_set(dict_set(dict_set(<<>>,
             "research", "research_analyst"),
             "fundamental", "fundamental_analyst"),
             "technical", "technical_analyst"),
             "consultant", "investment_consultant"),
             "daytrader", "daytrader_consultant")
    ELSE IF analysis_type = "technical"
         THEN dict_set(dict_set(<<>>, "research", "research_analyst"),
                       "technical", "technical_analyst")
         ELSE IF analysis_type = "fundamental"
              THEN dict_set(dict_set(<<>>, "research", "research_analyst"),
                            "fundamental", "fundamental_analyst")
              ELSE <<>>

\* StockAnalysisApp._create_agents_for_analysis: the dict of agents.
create_agents_for_analysis(analysis_type) ==
    IF analysis_type \in {"complete", "quick"}
    THEN LET agents ==
                 dict_set(dict_set(dict_set(dict_set(<<>>,
                     "research", "research_analyst"),
                     "fundamental", "fundamental_analyst"),
                     "technical", "technical_analyst"),
                     "consultant", "investment_consultant")
         IN  IF analysis_type = "complete"
             THEN dict_set(agents, "daytrader", "daytrader_consultant")
             ELSE agents
    ELSE IF analysis_type = "technical"
         THEN dict_set(dict_set(<<>>, "research", "research_analyst"),
                       "technical", "technical_analyst")
         ELSE IF analysis_type = "fundamental"
              THEN dict_set(dict_set(<<>>, "research", "research_analyst"),
                            "fundamental", "fundamental_analyst")
              ELSE <<>>

\* The Task objects of MarketTasks. id stands for the identity of the
\* object; context lists the ids of the tasks passed as context.
create_research_task(symbol, agent) ==
    [id |-> "research", symbol |-> symbol, agent |-> agent,
     context |-> <<>>]

create_fundamental_analysis_task(symbol, agent, research_task) ==
    [id |-> "fundamental", symbol |-> symbol, agent |-> agent,
     context |-> <<research_task.id>>]

create_technical_analysis_task(symbol, agent, research_task) ==
    [id |-> "technical", symbol |-> symbol, agent |-> agent,
     context |-> <<research_task.id>>]

\* Variant: the technical task is left out of the context.
create_daytrader_task_NoTechnical(symbol, agent, research_task, technical_task) ==
    [id |-> "daytrader", symbol |-> symbol, agent |-> agent,
     context |-> <<research_task.id>>]

create_daytrader_task(symbol, agent, research_task, technical_task) ==
    [id |-> "daytrader", symbol |-> symbol, agent |-> agent,
     context |-> <<research_task.id, technical_task.id>>]

create_investment_recommendation_task(symbol, agent, all_previous_tasks) ==
    [id |-> "final_recommendation", symbol |-> symbol, agent |-> agent,
     context |-> [i \in 1..Len(all_previous_tasks) |->
                      all_previous_tasks[i].id]]

\* [task for key, task in tasks.items() if key != 'research']
RECURSIVE tasks_but_research(_, _)
tasks_but_research(tasks, i) ==
    IF i > Len(tasks) THEN <<>>
    ELSE (IF tasks[i].key # "research" THEN <<tasks[i].value>> ELSE <<>>)
         \o tasks_but_research(tasks, i + 1)

\* Variant: the day-trade task is built before the technical task.
create_tasks_DaytraderFirst(symbol, agents, analysis_type) ==
    IF ~dict_has(agents, "research")
    THEN Raise("KeyError", "'research'")
    ELSE LET research_task ==
                 create_research_task(symbol, dict_item(agents, "research"))
             t1 == dict_set(<<>>, "research", research_task)
             t2 == IF dict_has(agents, "fundamental")
                   THEN dict_set(t1, "fundamental",
                            create_fundamental_analysis_task(
                                symbol, dict_item(agents, "fundamental"),
                                research_task))
                   ELSE t1
             t3 == IF dict_has(agents, "daytrader")
                   THEN dict_set(t2, "daytrader",
                            create_daytrader_task(
                                symbol, dict_item(agents, "daytrader"),
                                research_task, dict_get(t2, "technical")))
                   ELSE t2
             t4 == IF dict_has(agents, "technical")
                   THEN dict_set(t3, "technical",
                            create_technical_analysis_task(
                                symbol, dict_item(agents, "technical"),
                                research_task))
                   ELSE t3
             t5 == IF dict_has(agents, "consultant")
                   THEN dict_set(t4, "final_recommendation",
                            create_investment_recommendation_task(
                                symbol, dict_item(agents, "consultant"),
                                <<research_task>>
                                \o tasks_but_research(t4, 1)))
                   ELSE t4
         IN  [kind |-> "dict", dict |-> t5]

\* StockAnalysisApp._create_tasks_for_analysis: the dict of tasks, or the
\* KeyError of agents['research'].
create_tasks_for_analysis(symbol, agents, analysis_type) ==
    IF ~dict_has(agents, "research")
    THEN Raise("KeyError", "'research'")
    ELSE LET research_task ==
                 create_research_task(symbol, dict_item(agents, "research"))
             t1 == dict_set(<<>>, "research", research_task)
             t2 == IF dict_has(agents, "fundamental")
                   THEN dict_set(t1, "fundamental",
                            create_fundamental_analysis_task(
                                symbol, dict_item(agents, "fundamental"),
                                research_task))
                   ELSE t1
             t3 == IF dict_has(agents, "technical")
                   THEN dict_set(t2, "technical",
                            create_technical_analysis_task(
                                symbol, dict_item(agents, "technical"),
                                research_task))
                   ELSE t2
             t4 == IF dict_has(agents, "daytrader")
                   THEN dict_set(t3, "daytrader",
                            create_daytrader_task(
                                symbol, dict_item(agents, "daytrader"),
                                research_task, dict_get(t3, "technical")))
                   ELSE t3
             t5 == IF dict_has(agents, "consultant")
                   THEN dict_set(t4, "final_recommendation",
                            create_investment_recommendation_task(
                                symbol, dict_item(agents, "consultant"),
                                <<research_task>>
                                \o tasks_but_research(t4, 1)))
                   ELSE t4
         IN  [kind |-> "dict", dict |-> t5]

\* The dict analyze_stock returns after a successful run (lines 119-126).
analysis_result(symbol, analysis_type, agents, tasks) ==
    [symbol |-> symbol, analysis_type |-> analysis_type,
     result |-> "CrewOutput", agents_used |-> dict_keys(agents),
     tasks_completed |-> dict_keys(tasks)]

\* The dict analyze_stock returns from its except clause (lines 128-135).
analysis_error(symbol, analysis_type, e) ==
    [symbol |-> symbol, analysis_type |-> analysis_type, error |-> e.msg]

\* The states of a task of the Crew during kickoff.
TaskStates == {"Pending", "Running", "Done", "Failed"}

NoException == [kind |-> "none", error |-> "", msg |-> ""]

CrewIdle ==
    [pc |-> "idle", symbol |-> "", analysis_type |-> "", agents |-> <<>>,
     tasks |-> <<>>, state |-> <<>>, started |-> FALSE,
     caught |-> NoException, out |-> [symbol |-> ""]]

\* The Crew's list of tasks: list(tasks.values()).
CrewTasks == dict_values(crew.tasks)

\* analyze_stock up to crew.kickoff() (lines 95-114): agents and tasks are
\* created and the Crew is started, or the except clause returns the error.
AnalyzeStock ==
    /\ crew.pc = "idle"
    /\ \E symbol \in AppSymbols, analysis_type \in AnalysisTypeArgs :
        LET agents == create_agents_for_analysis(analysis_type)
            r == create_tasks_for_analysis(symbol, agents, analysis_type)
        IN  crew' =
              IF r.kind = "raise"
              THEN [CrewIdle EXCEPT
                      !.pc = "returned", !.symbol = symbol,
                      !.analysis_type = analysis_type, !.agents = agents,
                      !.caught = r,
                      !.out = analysis_error(symbol, analysis_type, r)]
              ELSE [CrewIdle EXCEPT
                      !.pc = "kickoff", !.symbol = symbol,
                      !.analysis_type = analysis_type, !.agents = agents,
                      !.tasks = r.dict,
                      !.state = [i \in 1..Len(r.dict) |-> "Pending"],
                      !.started = TRUE]
    /\ UNCHANGED <<batch, cli, llm_vars, s_vars, t_vars, a_vars>>

\* The sequential process of the Crew starts the next task of its list.
CrewStartTask ==
    /\ crew.pc = "kickoff"
    /\ \E i \in 1..Len(crew.state) :
        /\ crew.state[i] = "Pending"
        /\ \A j \in 1..(i - 1) : crew.state[j] = "Done"
        /\ crew' = [crew EXCEPT !.state[i] = "Running"]
    /\ UNCHANGED <<batch, cli, llm_vars, s_vars, t_vars, a_vars>>

\* The running task finishes.
CrewTaskDone ==
    /\ crew.pc = "kickoff"
    /\ \E i \in 1..Len(crew.state) :
        /\ crew.state[i] = "Running"
        /\ crew' = [crew EXCEPT !.state[i] = "Done"]
    /\ UNCHANGED <<batch, cli, llm_vars, s_vars, t_vars, a_vars>>

\* The running task fails: kickoff raises and the except clause of
\* analyze_stock returns the error (lines 128-135).
CrewTaskFail ==
    /\ crew.pc = "kickoff"
    /\ \E i \in 1..Len(crew.state) :
        /\ crew.state[i] = "Running"
        /\ LET e == Raise("Exception", CrewTasks[i].id)
           IN  crew' = [crew EXCEPT
                          !.state[i] = "Failed", !.pc = "returned",
                          !.caught = e,
                          !.out = analysis_error(crew.symbol,
                                                 crew.analysis_type, e)]
    /\ UNCHANGED <<batch, cli, llm_vars, s_vars, t_vars, a_vars>>

\* Every task is done: kickoff returns and analyze_stock returns the
\* result (lines 116-126).
CrewKickoffReturn ==
    /\ crew.pc = "kickoff"
    /\ \A i \in 1..Len(crew.state) : crew.state[i] = "Done"
    /\ crew' = [crew EXCEPT
                  !.pc = "returned",
                  !.out = analysis_result(crew.symbol, crew.analysis_type,
                                          crew.agents, crew.tasks)]
    /\ UNCHANGED <<batch, cli, llm_vars, s_vars, t_vars, a_vars>>

\* The caller takes the result.
AnalyzeStockReturn ==
    /\ crew.pc = "returned"
    /\ crew' = CrewIdle
    /\ UNCHANGED <<batch, cli, llm_vars, s_vars, t_vars, a_vars>>

RunNext ==
    \/ AnalyzeStock
    \/ CrewStartTask
    \/ CrewTaskDone
    \/ CrewTaskFail
    \/ CrewKickoffReturn
    \/ AnalyzeStockReturn

-----------------------------------------------------------------------------
(* analyze_stock as one call, batch_analyze and main: src/main.py *)

\* What may go wrong in crew.kickoff(): nothing, or the task with that id
\* fails when it is run.
CrewFailures == {None, "research", "daytrader"}

\* crew.kickoff() on the sequential process: the result, or the exception
\* of the first failing task.
kickoff(tasks, fail) ==
    IF \E i \in 1..Len(tasks) : tasks[i].id = fail
    THEN Raise("Exception", fail)
    ELSE [kind |-> "ok", error |-> "", msg |-> ""]

\* StockAnalysisApp.analyze_stock: the dict returned.
analyze_stock(symbol, analysis_type, fail) ==
    LET agents == create_agents_for_analysis(analysis_type)
        r == create_tasks_for_analysis(symbol, agents, analysis_type)
    IN  IF r.kind = "raise"
        THEN analysis_error(symbol, analysis_type, r)
        ELSE LET k == kickoff(dict_values(r.dict), fail)
             IN  IF k.kind = "raise"
                 THEN analysis_error(symbol, analysis_type, k)
                 ELSE analysis_result(symbol, analysis_type, agents, r.dict)

\* The longest list of symbols given to batch_analyze.
MaxBatch == 3

BatchLists == UNION {[1..n -> AppSymbols] : n \in 0..MaxBatch}

\* Variant: the loop stops at the first symbol whose analysis fails.
RECURSIVE batch_loop_StopOnError(_, _, _, _, _, _, _, _)
batch_loop_StopOnError(results, successful, failed, processed, symbols, analysis_type, fails, i) ==
    IF i > Len(symbols) \/ failed > 0
    THEN [results |-> results, successful |-> successful,
          failed |-> failed, processed |-> processed]
    ELSE batch_loop_StopOnError(
             (symbols[i] :> analyze_stock(symbols[i], analysis_type,
                                          fails[i])) @@ results,
             IF Has(analyze_stock(symbols[i], analysis_type, fails[i]),
                    "error")
             THEN successful ELSE successful + 1,
             IF Has(analyze_stock(symbols[i], analysis_type, fails[i]),
                    "error")
             THEN failed + 1 ELSE failed,
             Append(processed,
                    [symbol |-> symbols[i],
                     result |-> analyze_stock(symbols[i], analysis_type,
                                              fails[i])]),
             symbols, analysis_type, fails, i + 1)

\* The loop of batch_analyze from the i-th symbol on (lines 213-234), with
\* its locals results, successful and failed. processed is the log of the
\* loop: the symbols announced at line 214, each with the result of its
\* analysis. analyze_stock catches every Exception, so the except clause
\* of the loop (lines 227-234) is not entered.
RECURSIVE batch_loop(_, _, _, _, _, _, _, _)
batch_loop(results, successful, failed, processed, symbols, analysis_type, fails, i) ==
    IF i > Len(symbols)
    THEN [results |-> results, successful |-> successful,
          failed |-> failed, processed |-> processed]
    ELSE batch_loop(
             (symbols[i] :> analyze_stock(symbols[i], analysis_type,
                                          fails[i])) @@ results,
             IF Has(analyze_stock(symbols[i], analysis_type, fails[i]),
                    "error")
             THEN successful ELSE successful + 1,
             IF Has(analyze_stock(symbols[i], analysis_type, fails[i]),
                    "error")
             THEN failed + 1 ELSE failed,
             Append(processed,
                    [symbol |-> symbols[i],
                     result |-> analyze_stock(symbols[i], analysis_type,
                                              fails[i])]),
             symbols, analysis_type, fails, i + 1)

\* StockAnalysisApp.batch_analyze: the dict returned, and the log.
batch_analyze(symbols, analysis_type, fails) ==
    LET acc == batch_loop(<<>>, 0, 0, <<>>, symbols, analysis_type, fails, 1)
    IN  [dict |-> [batch_summary |->
                       [total_symbols |-> Len(symbols),
                        successful |-> acc.successful,
                        failed |-> acc.failed,
                        analysis_type |-> analysis_type],
                   results |-> acc.results],
         processed |-> acc.processed]

BatchIdleRet == [op |-> "none", symbols |-> <<>>, analysis_type |-> "",
                 fails |-> <<>>, out |-> batch_analyze(<<>>, "", <<>>)]

BatchAnalyze ==
    /\ batch.op = "none"
    /\ \E symbols \in BatchLists, analysis_type \in AnalysisTypeArgs :
         \E fails \in [1..Len(symbols) -> CrewFailures] :
            batch' = [op |-> "batch_analyze", symbols |-> symbols,
                      analysis_type |-> analysis_type, fails |-> fails,
                      out |-> batch_analyze(symbols, analysis_type, fails)]
    /\ UNCHANGED <<crew, cli, llm_vars, s_vars, t_vars, a_vars>>

\* The caller takes the summary.
BatchReturn ==
    /\ batch.op # "none"
    /\ batch' = BatchIdleRet
    /\ UNCHANGED <<crew, cli, llm_vars, s_vars, t_vars, a_vars>>

BatchNext ==
    \/ BatchAnalyze
    \/ BatchReturn

\* sys.exit(code)
SystemExit(code) == [kind |-> "exit", error |-> "SystemExit", code |-> code]

\* StockAnalysisApp._check_api_keys: the SystemExit raised, or nothing.
\* GOOGLE_API_KEY and NEWS_API_KEY are marked 'opcional': their absence
\* only prints a warning.
check_api_keys(env) ==
    IF ~Truthy(getenv(env, "ANTHROPIC_API_KEY", None))
    THEN SystemExit(1)
    ELSE [kind |-> "ok", error |-> "", code |-> 0]

\* The argument get_config receives for an Optional[str] provider.
ProviderArg(llm_provider) ==
    IF llm_provider = None THEN NoArg ELSE StrArg(llm_provider)

\* MarketAgents.__init__: get_llm(llm_provider), which is
\* get_crewai_llm(llm_provider); the client libraries are installed.
MarketAgents_init(mgr, llm_provider) ==
    LET config == LLM_get_config(mgr, ProviderArg(llm_provider))
    IN  IF config.kind = "raise"
        THEN config
        ELSE [kind |-> "agents", llm |-> config.config.provider]

\* StockAnalysisApp.__init__: the application, the SystemExit of
\* _check_api_keys, or the ValueError of get_config.
StockAnalysisApp_init(env, mgr, llm_provider) ==
    IF check_api_keys(env).kind = "exit"
    THEN check_api_keys(env)
    ELSE LET market_agents == MarketAgents_init(mgr, llm_provider)
             current_config ==
                 LLM_get_config(mgr, ProviderArg(llm_provider))
         IN  IF market_agents.kind = "raise"
             THEN market_agents
             ELSE IF current_config.kind = "raise"
                  THEN current_config
                  ELSE [kind |-> "app",
                        current_provider |->
                            IF llm_provider = None
                            THEN mgr.default_provider
                            ELSE llm_provider,
                        llm |-> market_agents.llm]

\* The command lines: positional symbol, --type, --batch, --list-symbols,
\* --model. An option that is not given is None (False for the flag).
CliModels == {None, "ollama", "anthropic", "bogus"}

CliArgs ==
    {[symbol |-> s, type |-> t, batch |-> b, list_symbols |-> l,
      model |-> m] :
        s \in {None, "PETR4.SA"}, t \in AnalysisTypes,
        b \in {<<>>, <<"PETR4.SA">>, <<"PETR4.SA", "VALE3.SA">>},
        l \in BOOLEAN, m \in CliModels}

\* symbol.strip().upper(), with '.SA' added when missing, for the lines
\* typed below.
input_symbol(line) ==
    CASE line = "petr4" -> "PETR4.SA"
      [] line = "VALE3.SA" -> "VALE3.SA"
      [] OTHER -> line

NoResult == [symbol |-> ""]

CliStart ==
    [pc |-> "start",
     args |-> [symbol |-> None, type |-> "quick", batch |-> <<>>,
               list_symbols |-> FALSE, model |-> None],
     app |-> [kind |-> "none"], mode |-> "", result |-> NoResult,
     exit |-> 0]

\* What kickoff does for the analyses of a command line.
CliFailures == {None, "research"}

\* main() from the parsed arguments to its return or to the prompt of the
\* interactive mode (lines 285-313). An exception or SystemExit leaving
\* main ends the process with status 1, a return with status 0.
CliMain ==
    /\ cli.pc = "start"
    /\ \E args \in CliArgs, fail \in CliFailures,
          fails \in [1..2 -> CliFailures] :
        LET app == StockAnalysisApp_init(
                       llm_env, llm_manager,
                       IF Truthy(args.model) THEN args.model ELSE None)
        IN  cli' =
              IF app.kind # "app"
              THEN [CliStart EXCEPT !.pc = "exited", !.args = args,
                                    !.app = app, !.mode = "init",
                                    !.exit = 1]
              ELSE IF args.list_symbols
              THEN [CliStart EXCEPT !.pc = "exited", !.args = args,
                                    !.app = app, !.mode = "list",
                                    !.exit = 0]
              ELSE IF args.batch # <<>>
              THEN [CliStart EXCEPT
                      !.pc = "exited", !.args = args, !.app = app,
                      !.mode = "batch",
                      !.result = batch_analyze(args.batch, args.type,
                                               fails).dict,
                      !.exit = 0]
              ELSE IF Truthy(args.symbol)
              THEN [CliStart EXCEPT
                      !.pc = "exited", !.args = args, !.app = app,
                      !.mode = "single",
                      !.result = analyze_stock(args.symbol, args.type,
                                               fail),
                      !.exit = 0]
              ELSE [CliStart EXCEPT !.pc = "interactive", !.args = args,
                                    !.app = app, !.mode = "interactive"]
    /\ UNCHANGED <<crew, batch, llm_vars, s_vars, t_vars, a_vars>>

\* One turn of the interactive loop that does not leave it (lines
\* 315-344): an empty line, a symbol to analyse, or an exception of
\* input() other than KeyboardInterrupt.
CliInteractiveLine ==
    /\ cli.pc = "interactive"
    /\ \E line \in {"", "petr4", "VALE3.SA", "EOFError"},
          fail \in CliFailures :
        cli' = IF line \in {"", "EOFError"}
               THEN cli
               ELSE [cli EXCEPT
                       !.result = analyze_stock(input_symbol(line),
                                                "quick", fail)]
    /\ UNCHANGED <<crew, batch, llm_vars, s_vars, t_vars, a_vars>>

\* 'quit', 'q', 'exit' or KeyboardInterrupt: the loop breaks and main
\* returns.
CliInteractiveQuit ==
    /\ cli.pc = "interactive"
    /\ cli' = [cli EXCEPT !.pc = "exited", !.exit = 0]
    /\ UNCHANGED <<crew, batch, llm_vars, s_vars, t_vars, a_vars>>

CliNext ==
    \/ CliMain
    \/ CliInteractiveLine
    \/ CliInteractiveQuit

\* No call in progress, no process started.
AppIdle ==
    /\ crew = CrewIdle
    /\ batch = BatchIdleRet
    /\ cli = CliStart

-----------------------------------------------------------------------------
(* Specifications *)

\* The two registries, each built from every environment.
InitRegistry ==
    /\ \/ LLMInit /\ SearchIdle
       \/ LLMIdle /\ SearchInit
    /\ ToolsIdle
    /\ AggIdle
    /\ AppIdle

NextRegistry ==
    \/ LLMGetConfig
    \/ LLMGetAvailableProviders
    \/ LLMReturn
    \/ SearchGetConfig
    \/ SearchGetAvailableProviders
    \/ SearchReturn

SpecRegistry == InitRegistry /\ [][NextRegistry]_vars

\* The ConfigManager over the two registries, each built from every
\* environment.
SpecConfig == InitRegistry /\ [][ConfigNext]_vars

InitLLM == LLMInit /\ SearchIdle /\ ToolsIdle /\ AggIdle /\ AppIdle

SpecLLM == InitLLM /\ [][LLMNext]_vars

InitSearch == LLMIdle /\ SearchInit /\ ToolsIdle /\ AggIdle /\ AppIdle

SpecSearch == InitSearch /\ [][SearchNext]_vars

InitTools == LLMIdle /\ SearchIdle /\ ToolsInit /\ AggIdle /\ AppIdle

SpecTools == InitTools /\ [][ToolsNext]_vars

InitAgg == LLMIdle /\ SearchIdle /\ ToolsIdle /\ AggInit /\ AppIdle

SpecAgg == InitAgg /\ [][AggNext]_vars

\* The Alpha Vantage manager alone, in every environment.
SpecAV == InitAgg /\ [][AVNext]_vars

\* compare_data_sources, with and without Alpha Vantage.
InitCompare == LLMIdle /\ SearchIdle /\ ToolsIdle /\ CompareInit /\ AppIdle

SpecCompare == InitCompare /\ [][CompareNext]_vars

\* One _make_mcp_request call after another, in every environment.
InitRequest == LLMIdle /\ SearchIdle /\ ToolsIdle /\ RequestInit /\ AppIdle

SpecRequest == InitRequest /\ [][RequestNext]_vars

\* One analysis: an analyze_stock call and the run of its Crew.
InitRun == LLMIdle /\ SearchIdle /\ ToolsIdle /\ AggIdle /\ AppIdle

SpecRun == InitRun /\ [][RunNext]_vars

InitBatch == LLMIdle /\ SearchIdle /\ ToolsIdle /\ AggIdle /\ AppIdle

SpecBatch == InitBatch /\ [][BatchNext]_vars

\* The command-line process, in every environment of the LLM registry.
InitCLI == LLMInit /\ SearchIdle /\ ToolsIdle /\ AggIdle /\ AppIdle

SpecCLI == InitCLI /\ [][CliNext]_vars

\* The LLM registry and its clients, in the environments that set models.
InitModel == LLMModelInit /\ SearchIdle /\ ToolsIdle /\ AggIdle /\ AppIdle

SpecModel == InitModel /\ [][ModelNext]_vars

\* Environments of the two registries with every combination of set and
\* unset credentials, and a Grok model that lacks its prefix.
LLMQueryEnvs ==
    {k @@ ("DEFAULT_LLM" :> None) @@ ("GROK_MODEL" :> <<"r", "1">>) :
       k \in [LLMKeyVars -> {None, "key"}]}

SearchQueryEnvs ==
    {k @@ ("DEFAULT_SEARCH_PROVIDER" :> None) :
       k \in [SearchKeyVars -> {None, "key"}]}

\* Either registry, built and then queried by every query operation.
InitQueries ==
    /\ \/ /\ llm_env \in LLMQueryEnvs
          /\ llm_manager = LLMConfigManager_init(llm_env)
          /\ llm_ret = LLMIdleRet
          /\ SearchIdle
       \/ /\ LLMIdle
          /\ s_env \in SearchQueryEnvs
          /\ search_manager = SearchConfigManager_init(s_env)
          /\ s_ret = SearchIdleRet
    /\ ToolsIdle
    /\ AggIdle
    /\ AppIdle

NextQueries ==
    \/ LLMGetConfig
    \/ LLMGetAvailableProviders
    \/ LLMIsProviderAvailable
    \/ LLMGetCrewaiLLM
    \/ LLMReturn
    \/ SearchGetConfig
    \/ SearchGetAvailableProviders
    \/ SearchIsProviderAvailable
    \/ SearchSearch
    \/ SearchReturn

SpecQueries == InitQueries /\ [][NextQueries]_vars

Init == InitLLM

Next == LLMNext

Spec == Init /\ [][Next]_vars

-----------------------------------------------------------------------------
(* Properties of the registries *)

\* The first member of the enumeration `enum` that is in the set S.
FirstDeclared(enum, S) ==
    enum[CHOOSE i \in 1..Len(enum) :
             /\ enum[i] \in S
             /\ \A j \in 1..(i - 1) : enum[j] \notin S]

LLMAvailable == Range(LLM_get_available_providers(llm_manager))

SearchAvailable == Range(Search_get_available_providers(search_manager))

\* C1: LLMConfigManager.get_config(None) raises only when no LLM provider is
\* available; when the default provider is not available but another one
\* is, it returns the config of the first available provider in
\* declaration order.
C1_LLMDefaultFallsBack ==
    (llm_ret.op = "get_config" /\ llm_ret.arg = NoArg) =>
        /\ llm_ret.out.kind = "raise" => LLMAvailable = {}
        /\ (llm_manager.default_provider \notin LLMAvailable
              /\ LLMAvailable # {}) =>
               /\ llm_ret.out.kind = "config"
               /\ llm_ret.out.config.provider =
                      FirstDeclared(LLMProvider, LLMAvailable)

\* C2: SearchConfigManager.get_config(None) returns the config of the
\* default provider when it is available, otherwise the config of the first
\* available provider in declaration order, and raises only when no
\* provider is available.
C2_SearchDefaultOrFirst ==
    (s_ret.op = "get_config" /\ s_ret.arg = NoArg) =>
        IF SearchAvailable = {}
        THEN s_ret.out.kind = "raise"
        ELSE /\ s_ret.out.kind = "config"
             /\ s_ret.out.config.provider =
                    IF search_manager.default_provider \in SearchAvailable
                    THEN search_manager.default_provider
                    ELSE FirstDeclared(SearchProvider, SearchAvailable)

\* get_config(None) fell back: the default provider has no credential and
\* two other providers are available.
C2_Witness ==
    /\ s_ret.op = "get_config"
    /\ s_ret.arg = NoArg
    /\ search_manager.default_provider = "tavily"
    /\ SearchAvailable = {"searxng", "serpapi"}
    /\ s_ret.out.kind = "config"
    /\ s_ret.out.config.provider = "searxng"

\* C3: get_available_providers() of either registry holds no provider whose
\* required credential is unset or empty: openai, anthropic, deepseek and
\* grok need their API key, tavily TAVILY_API_KEY, serpapi SERPAPI_KEY,
\* google both GOOGLE_API_KEY and GOOGLE_CSE_ID.
C3_AvailableHaveCredentials ==
    /\ \A p \in LLMAvailable :
           /\ p = "openai" => llm_env["OPENAI_API_KEY"] \notin {None, ""}
           /\ p = "anthropic" =>
                  llm_env["ANTHROPIC_API_KEY"] \notin {None, ""}
           /\ p = "deepseek" => llm_env["DEEPSEEK_API_KEY"] \notin {None, ""}
           /\ p = "grok" => llm_env["GROK_API_KEY"] \notin {None, ""}
    /\ \A p \in SearchAvailable :
           /\ p = "tavily" => s_env["TAVILY_API_KEY"] \notin {None, ""}
           /\ p = "serpapi" => s_env["SERPAPI_KEY"] \notin {None, ""}
           /\ p = "google" =>
                  /\ s_env["GOOGLE_API_KEY"] \notin {None, ""}
                  /\ s_env["GOOGLE_CSE_ID"] \notin {None, ""}
    /\ llm_ret.op = "get_available_providers" =>
           Range(llm_ret.out.list) = LLMAvailable
    /\ s_ret.op = "get_available_providers" =>
           Range(s_ret.out.list) = SearchAvailable

\* get_available_providers() answered in an environment where one key is
\* set to the empty string and another one to a key.
C3_Witness ==
    /\ llm_ret.op = "get_available_providers"
    /\ llm_env["OPENAI_API_KEY"] = ""
    /\ llm_env["GROK_API_KEY"] = "key"
    /\ "openai" \notin Range(llm_ret.out.list)
    /\ "grok" \in Range(llm_ret.out.list)

\* C4: one call of SearchConfigManager.search ends normally and attempts
\* each available provider at most once: no provider that has failed in the
\* call is attempted again.
C4_EachProviderAttemptedOnce ==
    s_ret.op = "search" =>
        /\ \A i, j \in 1..Len(s_ret.attempts) :
               i # j => s_ret.attempts[i].provider
                          # s_ret.attempts[j].provider
        /\ ~(s_ret.out.kind = "raise" /\ s_ret.out.error = "RecursionError")

\* C5: if the first provider attempted by search raises and the request of
\* the next provider succeeds, the call returns the results of that second
\* provider and raises nothing.
C5_SecondProviderResults ==
    (/\ s_ret.op = "search"
     /\ Cardinality(SearchAvailable) >= 2
     /\ s_ret.outcomes[1] = "fail"
     /\ s_ret.outcomes[2] = "ok") =>
        /\ Len(s_ret.attempts) = 2
        /\ s_ret.attempts[1].outcome = "fail"
        /\ s_ret.attempts[2].provider # s_ret.attempts[1].provider
        /\ s_ret.attempts[2].provider \in SearchAvailable
        /\ s_ret.out.kind = "results"
        /\ s_ret.out.source = s_ret.attempts[2].provider

\* search() got the results of Tavily after SearXNG failed.
C5_Witness ==
    /\ s_ret.op = "search"
    /\ s_ret.attempts = <<Attempt("searxng", "fail"), Attempt("tavily", "ok")>>
    /\ s_ret.out.kind = "results"
    /\ s_ret.out.source = "tavily"

\* Every provider of the registry was attempted and failed.
AllProvidersFailed ==
    /\ s_ret.op = "search"
    /\ \A i \in 1..Len(s_ret.attempts) : s_ret.attempts[i].outcome = "fail"
    /\ SearchAvailable = {s_ret.attempts[i].provider :
                            i \in 1..Len(s_ret.attempts)}

\* C8: when every available provider fails, SearchConfigManager.search
\* returns a result marked as simulated and raises nothing.
C8_SimulatedWhenAllFail ==
    AllProvidersFailed =>
        /\ s_ret.out.kind = "results"
        /\ s_ret.out.source = "simulated"

-----------------------------------------------------------------------------
(* Properties of SearchTools *)

GoogleConfigured ==
    /\ t_env.GOOGLE_API_KEY \notin {None, ""}
    /\ t_env.GOOGLE_CSE_ID \notin {None, ""}

SearxngConfigured == t_env.SEARXNG_URL \notin {None, ""}

\* The texts that say they are simulated.
SimulatedTexts == {"Busca simulada (API nao configurada)",
                   "Noticias simuladas"}

\* C6: search_internet follows primary -> secondary -> simulated: when
\* SearXNG is configured and its request fails while Google Custom Search is
\* configured, Google is attempted next and its results are returned if it
\* succeeds; the simulated result comes only after every configured
\* backend has failed, or when none is configured.
C6_GoogleAfterSearxng ==
    t_ret.op = "search_internet" =>
        /\ (/\ SearxngConfigured
            /\ GoogleConfigured
            /\ t_ret.attempted # <<>>
            /\ t_ret.attempted[1] = "searxng"
            /\ t_ret.backends["searxng"] = "fail") =>
               /\ t_ret.attempted = <<"searxng", "google">>
               /\ t_ret.backends["google"] = "ok" =>
                      t_ret.out = Text("Resultados da busca Google")
        /\ t_ret.out = simulate_search =>
               /\ SearxngConfigured => "searxng" \in Range(t_ret.attempted)
               /\ GoogleConfigured => "google" \in Range(t_ret.attempted)

\* C7: search_internet and search_news never raise; when no backend is
\* configured or the backend attempted fails they return the simulated
\* result, whose text says that it is simulated.
C7_ToolsNeverRaise ==
    t_ret.op \in {"search_internet", "search_news"} =>
        /\ t_ret.out.kind = "text"
        /\ (\/ t_ret.op = "search_internet"
               /\ ~SearxngConfigured /\ ~GoogleConfigured
            \/ t_ret.op = "search_news"
               /\ t_env.NEWS_API_KEY \in {None, ""}
            \/ \E i \in 1..Len(t_ret.attempted) :
                   t_ret.backends[t_ret.attempted[i]] = "fail") =>
               t_ret.out.text \in SimulatedTexts

\* search_internet sent its request to SearXNG, the request failed, and the
\* simulated text came back.
C7_Witness ==
    /\ t_ret.op = "search_internet"
    /\ t_ret.attempted = <<"searxng">>
    /\ t_ret.backends["searxng"] = "fail"
    /\ t_ret.out = simulate_search

-----------------------------------------------------------------------------
(* Properties of the market-data aggregator *)

AggReturned == a_ret.op = "get_enhanced_financial_data_with_mcp"

\* The MCP fetch of the call came back and reports mcp_available.
MCPReports ==
    LET r == get_alpha_vantage_mcp_data(a_env, a_cfg,
                                        replace_SA(a_ret.symbol),
                                        a_ret.mcp_in)
    IN  r.kind = "dict" /\ r.dict.mcp_available

\* The Alpha Vantage fetch of the call reports alpha_vantage_available.
AVReports ==
    AV_get_enhanced_financial_data(a_cfg, replace_SA(a_ret.symbol),
                                   a_ret.av_in).dict.alpha_vantage_available

\* C9: every record returned by get_enhanced_financial_data_with_mcp has one
\* primary_source: 'mcp' if MCP is available and its fetch reports
\* mcp_available; otherwise 'alpha_vantage' if Alpha Vantage is available
\* and its fetch reports alpha_vantage_available; otherwise 'yahoo_finance'.
C9_PrimarySourcePrecedence ==
    AggReturned =>
        /\ Has(a_ret.out.dict, "primary_source")
        /\ a_ret.out.dict.primary_source =
               IF is_mcp_available(a_env, a_cfg) /\ MCPReports
               THEN "mcp"
               ELSE IF AV_is_available(a_cfg) /\ AVReports
                    THEN "alpha_vantage"
                    ELSE "yahoo_finance"

\* MCP is available, its fetch raised, and the record falls to Alpha
\* Vantage.
C9_Witness ==
    /\ AggReturned
    /\ is_mcp_available(a_env, a_cfg)
    /\ Has(a_ret.out.dict, "mcp_error")
    /\ a_ret.out.dict.primary_source = "alpha_vantage"

\* The MCP fetch was made and none of its three blocks holds data.
MCPNoData ==
    /\ is_mcp_available(a_env, a_cfg)
    /\ a_ret.mcp_in.run = "ok"
    /\ a_ret.mcp_in.company_overview # "data"
    /\ \A x \in MCPStatements : a_ret.mcp_in.statements[x] # "data"
    /\ a_ret.mcp_in.time_series # "data"

\* The Alpha Vantage fetch was made and holds no overview and no earnings.
AVNoData ==
    /\ ReachesAV(a_env, a_cfg, a_ret.mcp_in)
    /\ a_ret.av_in["OVERVIEW"] = "none"
    /\ a_ret.av_in["EARNINGS"] = "none"

\* C10: a source that is available but yields no data for the symbol is not
\* chosen: an MCP fetch with no overview, no statements and no time series
\* does not give primary_source 'mcp', and an Alpha Vantage fetch with no
\* overview and no earnings does not give primary_source 'alpha_vantage'.
C10_NoDataFallsBack ==
    AggReturned =>
        /\ MCPNoData => a_ret.out.dict.primary_source # "mcp"
        /\ AVNoData => a_ret.out.dict.primary_source # "alpha_vantage"

\* C11: a returned record carries no data of a source below its
\* primary_source: with primary_source 'mcp' it has no 'alpha_vantage',
\* no 'alpha_vantage_context' and no 'yahoo_finance' block, and with
\* primary_source 'alpha_vantage' it has no 'yahoo_finance' block.
C11_NoLowerPrecedenceData ==
    AggReturned =>
        LET d == a_ret.out.dict
        IN  /\ d.primary_source = "mcp" =>
                   /\ ~Has(d, "alpha_vantage")
                   /\ ~Has(d, "alpha_vantage_context")
                   /\ ~Has(d, "yahoo_finance")
            /\ d.primary_source = "alpha_vantage" =>
                   ~Has(d, "yahoo_finance")

\* The MCP fetch of the call was made and failed as a whole: either
\* run_until_complete raised, or every request came back with an error.
MCPFetchFailed ==
    /\ is_mcp_available(a_env, a_cfg)
    /\ \/ a_ret.mcp_in.run # "ok"
       \/ /\ a_ret.mcp_in.company_overview = "error"
          /\ \A x \in MCPStatements : a_ret.mcp_in.statements[x] = "error"
          /\ a_ret.mcp_in.time_series = "error"

\* C12: get_enhanced_financial_data_with_mcp returns a record for every
\* symbol and raises nothing; the record holds the base block
\* 'yahoo_finance', and a failed MCP fetch is recorded in it as 'mcp_error'.
\* (The Alpha Vantage inputs do not tell a failed request from an empty
\* answer, so the formula states the recording for MCP.)
C12_FailuresRecorded ==
    AggReturned =>
        /\ a_ret.out.kind = "dict"
        /\ Has(a_ret.out.dict, "yahoo_finance")
        /\ MCPFetchFailed => Has(a_ret.out.dict, "mcp_error")

-----------------------------------------------------------------------------
(* Properties of the task graph and of its run *)

\* The tasks of the call have been built.
TasksBuilt == crew.pc # "idle" /\ crew.tasks # <<>>

\* The keys of the tasks built other than research and the recommendation,
\* in the order of the dict.
OtherTasksBuilt ==
    SelectSeq(dict_keys(crew.tasks),
              LAMBDA k : k \notin {"research", "final_recommendation"})

\* C13: whatever the analysis type, each task built has the context of the
\* table: research none; fundamental [research]; technical [research];
\* daytrader [research, technical] with the technical task built (never a
\* missing value); final recommendation = research followed by every other
\* task built.
C13_ContextTable ==
    TasksBuilt =>
        \A i \in 1..Len(crew.tasks) :
            LET key == crew.tasks[i].key
                task == crew.tasks[i].value
            IN  /\ task.id = key
                /\ key = "research" => task.context = <<>>
                /\ key \in {"fundamental", "technical"} =>
                       task.context = <<"research">>
                /\ key = "daytrader" =>
                       /\ task.context = <<"research", "technical">>
                       /\ dict_has(crew.tasks, "technical")
                /\ key = "final_recommendation" =>
                       task.context = <<"research">> \o OtherTasksBuilt

\* A complete analysis is running and its day-trade task was built with
\* the research and technical tasks as context.
C13_Witness ==
    /\ crew.pc = "kickoff"
    /\ crew.analysis_type = "complete"
    /\ dict_has(crew.tasks, "daytrader")
    /\ dict_item(crew.tasks, "daytrader").context
           = <<"research", "technical">>
    /\ dict_item(crew.tasks, "final_recommendation").context
           = <<"research", "fundamental", "technical", "daytrader">>

\* The tasks of each analysis type.
TaskSetOf(analysis_type) ==
    CASE analysis_type = "complete" ->
             {"research", "fundamental", "technical", "daytrader",
              "final_recommendation"}
      [] analysis_type = "quick" ->
             {"research", "fundamental", "technical",
              "final_recommendation"}
      [] analysis_type = "technical" -> {"research", "technical"}
      [] analysis_type = "fundamental" -> {"research", "fundamental"}

\* C14: the task set built for an analysis type is exactly the one of the
\* table (complete: all five; quick: no daytrader; technical: research and
\* technical; fundamental: research and fundamental), each task once.
C14_TaskSetPerType ==
    (crew.pc \in {"kickoff", "returned"}
     /\ crew.analysis_type \in AnalysisTypes) =>
        /\ Range(dict_keys(crew.tasks)) = TaskSetOf(crew.analysis_type)
        /\ Len(crew.tasks) = Cardinality(TaskSetOf(crew.analysis_type))

\* A quick analysis ran to the end with its four tasks.
C14_Witness ==
    /\ crew.pc = "returned"
    /\ crew.analysis_type = "quick"
    /\ Has(crew.out, "tasks_completed")
    /\ crew.out.tasks_completed
           = <<"research", "fundamental", "technical",
               "final_recommendation">>

\* C15: in the list handed to the Crew every task of a context stands
\* before the task that names it (so every context, the final task's
\* included, holds only tasks of the list), and during the sequential run a
\* task that has been started has all the tasks of its context Done.
C15_TopologicalOrder ==
    TasksBuilt =>
        \A i \in 1..Len(CrewTasks) :
            /\ \A c \in Range(CrewTasks[i].context) :
                   \E j \in 1..(i - 1) : CrewTasks[j].id = c
            /\ crew.state[i] # "Pending" =>
                   \A j \in 1..Len(CrewTasks) :
                       CrewTasks[j].id \in Range(CrewTasks[i].context) =>
                           crew.state[j] = "Done"

\* The day-trade task of a complete analysis is running after research
\* and technical finished.
C15_Witness ==
    /\ crew.pc = "kickoff"
    /\ crew.analysis_type = "complete"
    /\ \E i \in 1..Len(CrewTasks) :
           /\ CrewTasks[i].id = "daytrader"
           /\ crew.state[i] = "Running"
           /\ \E j \in 1..(i - 1) :
                  CrewTasks[j].id = "technical" /\ crew.state[j] = "Done"

\* Task i has task j in its context, directly or through another task.
DependsOn(i, j) ==
    \/ CrewTasks[j].id \in Range(CrewTasks[i].context)
    \/ \E k \in 1..Len(CrewTasks) :
           /\ CrewTasks[k].id \in Range(CrewTasks[i].context)
           /\ CrewTasks[j].id \in Range(CrewTasks[k].context)

\* C16: every task is Pending, Running, Done, Failed or Skipped, and when
\* a run ends with a failed task, every task that depends on the failed
\* one was never started (Skipped; a task left Pending is counted as such)
\* while every task that does not depend on it is Done.
C16_FailurePropagation ==
    /\ \A i \in 1..Len(crew.state) :
           crew.state[i] \in TaskStates \cup {"Skipped"}
    /\ crew.pc = "returned" =>
           \A f \in 1..Len(crew.state) :
               crew.state[f] = "Failed" =>
                   \A i \in 1..Len(crew.state) :
                       i # f =>
                           IF DependsOn(i, f)
                           THEN crew.state[i] \in {"Skipped", "Pending"}
                           ELSE crew.state[i] = "Done"

\* C17: analyze_stock with an analysis type outside complete, quick,
\* technical, fundamental ends with an invalid-mode error, with no agent
\* created, no task built and the Crew never started.
C17_InvalidModeFailsFast ==
    (crew.pc = "returned" /\ crew.analysis_type \notin AnalysisTypes) =>
        /\ crew.caught.kind = "raise"
        /\ crew.caught.error \in {"InvalidMode", "ValueError"}
        /\ crew.agents = <<>>
        /\ crew.tasks = <<>>
        /\ ~crew.started

-----------------------------------------------------------------------------
(* Properties of batch_analyze and of the command line *)

BatchReturned == batch.op = "batch_analyze"

\* C18: batch_analyze processes every symbol of its list, in order and
\* each with the outcome its own analysis has, whatever the outcome of the
\* earlier ones; total_symbols is the length of the list, successful +
\* failed = total_symbols, and failed counts exactly the analyses whose
\* result carries an error.
C18_BatchProcessesAll ==
    BatchReturned =>
        LET processed == batch.out.processed
            summary == batch.out.dict.batch_summary
        IN  /\ [i \in 1..Len(processed) |-> processed[i].symbol]
                   = batch.symbols
            /\ \A i \in 1..Len(processed) :
                   Has(processed[i].result, "error")
                       <=> Has(analyze_stock(batch.symbols[i],
                                             batch.analysis_type,
                                             batch.fails[i]), "error")
            /\ summary.total_symbols = Len(batch.symbols)
            /\ summary.successful + summary.failed = summary.total_symbols
            /\ summary.failed =
                   Cardinality({i \in 1..Len(processed) :
                                   Has(processed[i].result, "error")})
            /\ \A i \in 1..Len(batch.symbols) :
                   batch.symbols[i] \in DOMAIN batch.out.dict.results

\* The first analysis of a batch of three failed and a later one
\* succeeded.
C18_Witness ==
    /\ BatchReturned
    /\ Len(batch.symbols) = 3
    /\ Has(batch.out.processed[1].result, "error")
    /\ ~Has(batch.out.processed[3].result, "error")
    /\ batch.out.dict.batch_summary.failed >= 1
    /\ batch.out.dict.batch_summary.successful >= 1

\* C19: the process ends with a non-zero exit status when the analysis of
\* a single ticker failed, and with exit status zero after a batch run,
\* failed tickers or not.
C19_ExitStatus ==
    (cli.pc = "exited" /\ cli.app.kind = "app") =>
        /\ (cli.mode = "single" /\ Has(cli.result, "error")) =>
               cli.exit # 0
        /\ cli.mode = "batch" => cli.exit = 0

\* The provider the command line asks for: --model, or the default one.
RequestedProvider ==
    IF Truthy(cli.args.model)
    THEN from_string(cli.args.model)
    ELSE llm_manager.default_provider

\* C20: when the requested provider (the default one when none is
\* requested) is available, StockAnalysisApp is constructed, whatever
\* credentials of other providers are missing.
C20_StartupNeedsOnlyRequested ==
    (/\ cli.pc # "start"
     /\ RequestedProvider # "ValueError"
     /\ LLM_is_provider_available(llm_manager, RequestedProvider)) =>
        cli.app.kind = "app"

-----------------------------------------------------------------------------
(* Properties of the registries' queries *)

\* get_config("bogus") of the LLM registry returned what get_config(None)
\* returns.
LLMUnknownIsDefault ==
    (llm_ret.op = "get_config" /\ llm_ret.arg = StrArg("bogus")) =>
        llm_ret.out = LLM_get_config(llm_manager, NoArg)

\* get_config("bogus") of the search registry returned what
\* get_config(None) returns.
SearchUnknownIsDefault ==
    (s_ret.op = "get_config" /\ s_ret.arg = StrArg("bogus")) =>
        s_ret.out = Search_get_config(search_manager, NoArg)

\* C21: in both registries, get_config called with an identity that names
\* no known provider does not raise because of that input and returns
\* exactly what get_config(None) returns in the same environment.
C21_UnknownIdentityIsDefault ==
    LLMUnknownIsDefault /\ SearchUnknownIsDefault


\* The members of the enumeration `enum` that are in `list`, in declaration
\* order.
InDeclarationOrder(enum, list) ==
    SelectSeq(enum, LAMBDA p : p \in Range(list))

\* C22: get_available_providers() of each registry lists the available
\* providers in the declaration order of the provider enumeration (LLM:
\* openai, anthropic, deepseek, grok, ollama; Search: searxng, tavily,
\* google, serpapi), for every environment and at every call.
C22_DeclarationOrder ==
    /\ LLMProvider = <<"openai", "anthropic", "deepseek", "grok", "ollama">>
    /\ SearchProvider = <<"searxng", "tavily", "google", "serpapi">>
    /\ llm_ret.op = "get_available_providers" =>
           llm_ret.out.list = InDeclarationOrder(LLMProvider, llm_ret.out.list)
    /\ s_ret.op = "get_available_providers" =>
           s_ret.out.list = InDeclarationOrder(SearchProvider, s_ret.out.list)

\* The LLM registry has answered get_available_providers() with three
\* providers that are not adjacent in the enumeration.
C22_Witness ==
    /\ llm_ret.op = "get_available_providers"
    /\ llm_ret.out.list = <<"openai", "grok", "ollama">>

-----------------------------------------------------------------------------
(* Properties of the model names *)

\* C23: LLMConfigManager._validate_model_format is idempotent for every
\* provider and every model string -- normalising an already normalised
\* model returns it unchanged -- and a model that already carries the
\* provider's prefix ("deepseek/" for deepseek, "grok-" for grok) is
\* returned unchanged.
C23_ValidateIdempotent ==
    llm_ret.op = "_validate_model_format" =>
        LET config == llm_ret.arg.v
            normalised == llm_ret.out.model
        IN  /\ validate_model_format([config EXCEPT !.model = normalised])
                   = normalised
            /\ (config.provider = "deepseek"
                   /\ startswith(config.model, deepseek_prefix)) =>
                   normalised = config.model
            /\ (config.provider = "grok"
                   /\ startswith(config.model, grok_prefix)) =>
                   normalised = config.model

\* A DeepSeek model without the prefix has been normalised.
C23_Witness ==
    /\ llm_ret.op = "_validate_model_format"
    /\ llm_ret.arg.v.provider = "deepseek"
    /\ llm_ret.arg.v.model = <<"r", "1">>
    /\ llm_ret.out.model = deepseek_prefix \o <<"r", "1">>

\* C24: for every available provider, the model held by the LLMConfig that
\* get_config returns is the normalised model: it equals the model given
\* to the client that get_crewai_llm builds for that provider.
C24_ConfigHoldsNormalisedModel ==
    (llm_ret.op = "get_crewai_llm" /\ llm_ret.out.kind = "client") =>
        LLM_get_config(llm_manager, llm_ret.arg).config.model
            = llm_ret.out.model

\* C25: after construction, no query operation -- get_config,
\* get_available_providers, is_provider_available, get_crewai_llm, search --
\* changes a registry's configs mapping, any field of a stored config, or
\* default_provider: each registry stays as its constructor built it.
C25_QueriesChangeNothing ==
    /\ llm_manager = LLMConfigManager_init(llm_env)
    /\ search_manager = SearchConfigManager_init(s_env)

\* A client has been built with a model that differs from the stored one.
C25_Witness ==
    /\ llm_ret.op = "get_crewai_llm"
    /\ llm_ret.out.kind = "client"
    /\ llm_ret.out.provider = "grok"
    /\ llm_ret.out.model = grok_prefix \o <<"r", "1">>
    /\ item(llm_manager.configs, "grok").model = <<"r", "1">>

-----------------------------------------------------------------------------
(* Properties of the market-data configuration *)

\* C26: at every point after construction, AlphaVantageConfig.enabled and
\* MCPConfig.enabled are true only if the API key is non-empty: no
\* environment yields an enabled market-data config with a missing
\* credential.
C26_EnabledNeedsKey ==
    /\ a_cfg.av.enabled => a_cfg.av.api_key # ""
    /\ a_cfg.mcp.enabled => a_cfg.mcp.api_key # ""

\* Both sources were asked for by the environment, which holds an empty
\* key, and a call has been answered.
C26_Witness ==
    /\ a_env.ALPHA_VANTAGE_ENABLED = "true"
    /\ a_env.ALPHA_VANTAGE_MCP_ENABLED = "TRUE"
    /\ a_env.ALPHA_VANTAGE_API_KEY = ""
    /\ ~a_cfg.av.enabled
    /\ ~a_cfg.mcp.enabled
    /\ a_ret.op = "get_enhanced_financial_data_with_mcp"

PremiumFunctions == {"CASH_FLOW", "INCOME_STATEMENT", "BALANCE_SHEET"}

\* C28: AlphaVantageManager.get_enhanced_financial_data requests and
\* includes the cash_flow, income_statement and balance_sheet blocks only
\* when the premium flag is set; when Alpha Vantage is not available it
\* makes no request at all and returns only alpha_vantage_available = false.
C28_PremiumBlocksOnlyForPremium ==
    a_ret.op = "get_enhanced_financial_data" =>
        /\ \A f \in PremiumFunctions :
               (f \in Range(a_ret.out.requests)
                  \/ Has(a_ret.out.dict, AVBlock(f))) => a_cfg.av.premium
        /\ ~AV_is_available(a_cfg) =>
               /\ a_ret.out.requests = <<>>
               /\ a_ret.out.dict = [alpha_vantage_available |-> FALSE]

\* A non-premium account whose three statements the service would have
\* answered: only the overview and the earnings were requested.
C28_Witness ==
    /\ a_ret.op = "get_enhanced_financial_data"
    /\ AV_is_available(a_cfg)
    /\ ~a_cfg.av.premium
    /\ \A f \in PremiumFunctions : a_ret.av_in[f] = "data"
    /\ a_ret.out.requests = <<"OVERVIEW", "EARNINGS">>
    /\ Has(a_ret.out.dict, "company_overview")

\* The metrics the comparison has flagged.
Compared ==
    IF cmp_ret.op = "compare_data_sources"
       /\ cmp_ret.out.dict.comparison_available
    THEN {i \in 1..Len(metrics_map) :
            Has(cmp_ret.out.dict.metrics_comparison, metrics_map[i].metric)}
    ELSE {}

\* C27: compare_data_sources flags a metric 'close' exactly when both
\* values are numeric and the relative difference |yahoo - alpha| / |yahoo|
\* is below 5%, 'different' when it is 5% or more, and 'format_error' when
\* a value is not numeric -- for every pair of numeric values, including
\* negative and zero Yahoo values.  (Two zero values have no relative
\* difference and may be flagged either way.)
C27_CloseWithinFivePercent ==
    \A i \in Compared :
        LET yahoo == cmp_ret.yf_data[metrics_map[i].yf_key]
            alpha == cmp_ret.av_overview.d[metrics_map[i].av_key]
            status == cmp_ret.out.dict
                          .metrics_comparison[metrics_map[i].metric]
                          .match_status
            numeric == yahoo.t = "num" /\ alpha.t = "num"
            below == abs(yahoo.n - alpha.n) * 100 < 5 * abs(yahoo.n)
        IN  /\ status \in {"close", "different", "format_error"}
            /\ status = "format_error" <=> ~numeric
            /\ (numeric /\ (yahoo.n # 0 \/ alpha.n # 0)) =>
                   /\ status = "close" <=> below
                   /\ status = "different" <=> ~below

-----------------------------------------------------------------------------
(* Properties of the MCP request *)

\* The POSTs of the call in progress.
Posts == SelectSeq(req.log, LAMBDA e : e.ev = "post")

\* C29: AlphaVantageMCPClient._make_mcp_request sends at most max_retries
\* POST attempts per call: it returns on the first successful response,
\* makes a further attempt only after a client (transport/HTTP) error and
\* only after waiting 2^attempt seconds, re-raises that error after the
\* last attempt, and never retries a response that carries an MCP 'error'
\* field.
C29_BoundedRetries ==
    /\ Len(Posts) <= a_cfg.mcp.max_retries
    /\ \A i \in 1..Len(req.log) :
           LET e == req.log[i]
           IN  /\ (e.ev = "post" /\ i > 1) =>
                      /\ req.log[i - 1].ev = "sleep"
                      /\ req.log[i - 1].seconds = 2 ^ (e.attempt - 1)
               /\ e.ev = "sleep" =>
                      /\ i > 1
                      /\ req.log[i - 1].ev = "post"
                      /\ req.log[i - 1].response = "client_error"
                      /\ e.seconds = 2 ^ req.log[i - 1].attempt
               /\ (e.ev = "post" /\ e.response = "result") =>
                      /\ i = Len(req.log)
                      /\ req.pc = "done"
                      /\ req.out.kind = "result"
               /\ (e.ev = "post" /\ e.response = "mcp_error") =>
                      /\ i = Len(req.log)
                      /\ req.pc = "done"
                      /\ req.out.kind = "raise"
               /\ (e.ev = "post" /\ e.response = "client_error"
                      /\ i = Len(req.log) /\ req.pc = "done") =>
                      /\ Len(Posts) = a_cfg.mcp.max_retries
                      /\ req.out = Raise("ClientError", "")

\* Three attempts failed with a client error, the third after pauses of 1,
\* 2 and 4 seconds, and the fourth and last one re-raised the error.
C29_Witness ==
    /\ a_cfg.mcp.max_retries = 4
    /\ req.pc = "done"
    /\ Len(Posts) = 4
    /\ req.log[6].ev = "sleep"
    /\ req.log[6].seconds = 4
    /\ req.out = Raise("ClientError", "")

-----------------------------------------------------------------------------
(* Properties of the ConfigManager *)

\* C30: Ollama is in the LLM registry and SearXNG is in the search registry
\* under every environment, so get_available_providers() is never empty for
\* either kind: the 'no search provider configured' error of
\* SearchConfigManager.get_config is unreachable and
\* validate_configuration() never reports valid = false.
C30_NeverEmpty ==
    /\ "ollama" \in LLMAvailable
    /\ "searxng" \in SearchAvailable
    /\ llm_ret.op = "get_available_providers" => llm_ret.out.list # <<>>
    /\ s_ret.op = "get_available_providers" => s_ret.out.list # <<>>
    /\ s_ret.op = "get_config" => s_ret.out.kind = "config"
    /\ llm_ret.op = "validate_configuration" =>
           /\ llm_ret.out.validation.valid
           /\ llm_ret.out.validation.errors = <<>>

\* No credential is set at all: the validation is still valid, and warns
\* that no main LLM provider is configured.
C30_Witness ==
    /\ \A k \in LLMKeyVars : llm_env[k] \in {None, ""}
    /\ llm_ret.op = "validate_configuration"
    /\ llm_ret.out.validation.valid
    /\ Len(llm_ret.out.validation.warnings) = 1
    /\ LLMAvailable = {"ollama"}

=============================================================================
